---- MODULE Spec2Model ----
(***************************************************************************)
(* Execution pipeline of everping (src/app/main.py): run store, dispatcher,*)
(* worker pool, execute_one_run / _execute_single, the process supervisor  *)
(* (src/app/executor.py), the monitor output parser, the metrics writer,   *)
(* the alert engine and the trigger firing rule.                           *)
(*                                                                         *)
(* Time is a non-decreasing integer clock; every now_utc() and             *)
(* now_local_naive() call reads it, and the configured durations are       *)
(* scaled to a few ticks.  Each action is one commit-delimited step of a   *)
(* handler.  Database and session failures, the deletion of run or task     *)
(* rows by the web handlers, and edits of a task's type are outside this   *)
(* model.                                                                  *)
(***************************************************************************)
EXTENDS Integers, Sequences, FiniteSets, TLC

\* ------------------------------------------------------------------ bounds
MaxRuns == 2
MaxTime == 1
MaxQueue == 2
MaxEdits == 1
MaxTriggers == 1
MaxFireTime == 2
MaxAlerts == 3
MaxLogTime == 2
MaxRebuilds == 3
MaxSchedTriggers == 2
MaxReloads == 2
MaxJobs == 2
MaxIntervalTime == 5
MaxPoolRuns == 3

\* ------------------------------------------------- configuration (scaled)
MAX_WORKERS == 2
RUN_ZOMBIE_SEC == 0
ALERT_SUPPRESS_SEC == 1
METRICS_RETENTION_DAYS == 6
LOG_BACKUP_COUNT == 1

\* one day, in clock ticks
DayTicks == 1
IntervalSec == 2

None == -1
NoJob == "none"

Tasks == {1}
TaskTypes == {"schedule", "monitor"}
RunIds == 1..MaxRuns
Workers == 1..MAX_WORKERS

\* tasks.job_id of every task
TaskJob(t) == "j1"

Terminal == {"SUCCESS", "FAILED", "TIMEOUT", "SKIPPED"}

\* ---------------------------------------------------------- text helpers
\* Texts are sequences of one-character strings; NL, TAB and SP stand for
\* "\n", "\t" and " ".
NL == "NL"
TAB == "TAB"
SP == "SP"
Digits == {"0", "1", "2", "3", "4", "5", "6", "7", "8", "9"}

DigitVal(c) ==
  CASE c = "0" -> 0 [] c = "1" -> 1 [] c = "2" -> 2 [] c = "3" -> 3
    [] c = "4" -> 4 [] c = "5" -> 5 [] c = "6" -> 6 [] c = "7" -> 7
    [] c = "8" -> 8 [] OTHER -> 9

RECURSIVE SplitOn(_, _)
\* str.split(sep): the pieces between separators, empty pieces kept.
SplitOn(s, sep) ==
  IF \A i \in 1..Len(s) : s[i] # sep
  THEN <<s>>
  ELSE LET i == CHOOSE j \in 1..Len(s) :
                  s[j] = sep /\ \A k \in 1..(j - 1) : s[k] # sep
       IN <<SubSeq(s, 1, i - 1)>> \o SplitOn(SubSeq(s, i + 1, Len(s)), sep)

\* str.splitlines(): split at line ends, no empty piece after a final one.
SplitLines(s) ==
  LET ps == SplitOn(s, NL)
  IN IF ps[Len(ps)] = <<>> THEN SubSeq(ps, 1, Len(ps) - 1) ELSE ps

StartsWith(s, p) == Len(s) >= Len(p) /\ SubSeq(s, 1, Len(p)) = p

RECURSIVE Strip(_)
\* str.strip(): leading and trailing whitespace removed.
Strip(s) ==
  IF s = <<>> THEN s
  ELSE IF s[1] = SP THEN Strip(Tail(s))
  ELSE IF s[Len(s)] = SP THEN Strip(SubSeq(s, 1, Len(s) - 1))
  ELSE s

\* float(s) succeeds (over this alphabet: a non-empty run of digits).
IsFloat(s) == s # <<>> /\ \A i \in 1..Len(s) : s[i] \in Digits

RECURSIVE FloatVal(_)
FloatVal(s) ==
  IF s = <<>> THEN 0
  ELSE 10 * FloatVal(SubSeq(s, 1, Len(s) - 1)) + DigitVal(s[Len(s)])

OutPrefix == <<"O", "U", "T", "=">>

\* mutant: the first line starting with OUT= is taken
parse_out_line_First(stdout_text) ==
  LET lines == SplitLines(stdout_text)
      idx == {i \in 1..Len(lines) : StartsWith(lines[i], OutPrefix)}
  IN IF idx = {} THEN <<>>
     ELSE LET first == CHOOSE i \in idx : \A j \in idx : i <= j
              payload == SubSeq(lines[first], 5, Len(lines[first]))
          IN IF payload = <<>> THEN <<>> ELSE SplitOn(payload, TAB)

\* parse_out_line: tokens of the last line starting with OUT=.
parse_out_line(stdout_text) ==
  LET lines == SplitLines(stdout_text)
      idx == {i \in 1..Len(lines) : StartsWith(lines[i], OutPrefix)}
  IN IF idx = {} THEN <<>>
     ELSE LET last == CHOOSE i \in idx : \A j \in idx : j <= i
              payload == SubSeq(lines[last], 5, Len(lines[last]))
          IN IF payload = <<>> THEN <<>> ELSE SplitOn(payload, TAB)

\* One token of parse_metrics_tokens: <<pair>> or <<>> when discarded.
ParseToken(tok) ==
  LET t == Strip(tok)
  IN IF t = <<>> THEN <<>>
     ELSE IF \E i \in 1..Len(t) : t[i] = "="
     THEN LET kv == SplitOn(t, "=")
              i == Len(kv[1]) + 1
              k == Strip(kv[1])
              v == Strip(SubSeq(t, i + 1, Len(t)))
          IN IF IsFloat(v) THEN <<[key |-> k, value |-> FloatVal(v)]>> ELSE <<>>
     ELSE IF IsFloat(t) THEN <<[key |-> <<"v", "a", "l", "u", "e">>, value |-> FloatVal(t)]>>
     ELSE <<>>

RECURSIVE parse_metrics_tokens(_)
parse_metrics_tokens(tokens) ==
  IF tokens = <<>> THEN <<>>
  ELSE ParseToken(Head(tokens)) \o parse_metrics_tokens(Tail(tokens))

\* Captured standard outputs a child may produce.
StdoutNone == <<"h", "i", NL>>
StdoutTwo == <<"O", "U", "T", "=", "9", NL, "o", "k", NL,
               "O", "U", "T", "=", "c", "=", "2", TAB, SP, "7", TAB, "t", "=", "x">>
Stdouts == {StdoutNone, StdoutTwo}
\* outputs of a task's command: the monitor task emits metrics
TaskStdouts(type) == IF type = "monitor" THEN Stdouts ELSE {StdoutNone}

\* ------------------------------------------------------------------ state
VARIABLES
  now,          \* the clock read by now_utc() / now_local_naive()
  tasks,        \* tasks table: task id -> [enabled, type]
  jobs,         \* job catalogue: ids of the loaded snapshot (_jobs)
  runs,         \* runs table: run id -> row, for the rows that exist
  nextId,       \* next primary key of the runs table
  queue,        \* work queue of the ThreadPoolExecutor (submitted run ids)
  wk,           \* per worker thread: position in execute_one_run and locals
  alerts,       \* alerts table (append-only)
  alert_state,  \* alert_state table: <<task, kind>> -> last_sent_at
  pushes,       \* calls of the push script made by maybe_send_alert, in order
  csv,          \* metrics directory: task id -> rows of task_<id>.csv
  logs,         \* log directory: the days d for which run_<d>.*.log files exist
  triggers,     \* triggers table: trigger id -> row
  sched,        \* job set of the BackgroundScheduler: trigger ids with a job
  fired,        \* record of the latest AppScheduler._fire call
  claimed,      \* history: run id -> number of claims observed successful
  launches,     \* history: run id -> number of subprocess launches
  concurrent,   \* history: pairs of runs of one task claimed concurrently
  edits,        \* number of operator mutations made so far
  rb,           \* per request thread: position in a handler's commit and rebuild
  faulted,      \* history: runs during which a database operation raised
  stopping,     \* WorkerPool._stop: the event set by WorkerPool.stop()
  jobs_list,    \* job catalogue: the entries of the loaded snapshot in file order
  jobs_error,   \* job catalogue: the diagnostic of the last reload (_jobs_error)
  rd,           \* per request thread: position in a page handler reading the catalogue
  next_run,     \* job store of the scheduler: trigger id with a job -> next run time
  probe         \* one supervised child: its behaviour and the supervisor's position

vars == <<now, tasks, jobs, runs, nextId, queue, wk, alerts, alert_state, pushes, csv, logs,
          triggers, sched, fired, claimed, launches, concurrent, edits, rb, faulted,
          stopping, jobs_list, jobs_error, rd, next_run, probe>>

engineVars == <<queue, wk, alerts, alert_state, pushes, csv, claimed, launches, concurrent>>
fireVars == <<triggers, sched, fired>>
catVars == <<jobs_list, jobs_error, rd>>
ctlVars == <<rb, faulted, stopping, catVars, next_run, probe>>

NoRes == [exit_code |-> 0, timed_out |-> FALSE, stdout |-> <<>>]

IdleWorker ==
  [pc |-> "idle", rid |-> 0, task |-> 0, kind |-> "none", child |-> "none",
   rc |-> 0, res |-> NoRes, csvio |-> "none", logio |-> "none", at |-> 0,
   st |-> None]

\* mutant: scheduled_at taken from a clock that runs ahead of now_utc()
NewRun_ClockAhead(task_id, trigger_id, t) ==
  [task_id |-> task_id, trigger_id |-> trigger_id, status |-> "PENDING",
   scheduled_at |-> t + 1, started_at |-> None, finished_at |-> None,
   exit_code |-> None, error_message |-> "none"]

\* mutant: the row is inserted as already started
NewRun_Started(task_id, trigger_id, t) ==
  [task_id |-> task_id, trigger_id |-> trigger_id, status |-> "RUNNING",
   scheduled_at |-> t, started_at |-> t, finished_at |-> None,
   exit_code |-> None, error_message |-> "none"]

\* Run(task_id, trigger_id, status="PENDING", scheduled_at=now_utc())
NewRun(task_id, trigger_id, t) ==
  [task_id |-> task_id, trigger_id |-> trigger_id, status |-> "PENDING",
   scheduled_at |-> t, started_at |-> None, finished_at |-> None,
   exit_code |-> None, error_message |-> "none"]

\* enqueue_run: insert the row under the next primary key.
InsertRun(task_id, trigger_id) ==
  /\ runs' = [r \in DOMAIN runs \cup {nextId} |->
                IF r = nextId THEN NewRun(task_id, trigger_id, now) ELSE runs[r]]
  /\ nextId' = nextId + 1

enqueue_run(task_id, trigger_id) ==
  /\ nextId <= MaxRuns
  /\ InsertRun(task_id, trigger_id)

\* ---------------------------------------------------------- environment
\* Passage of time.
Tick ==
  /\ now < MaxTime
  /\ now' = now + 1
  /\ UNCHANGED <<tasks, jobs, runs, nextId, engineVars, fireVars, edits, logs, ctlVars>>

\* POST /tasks/{id}/run
run_now ==
  \E t \in Tasks :
    /\ enqueue_run(t, 0)
    /\ UNCHANGED <<now, tasks, jobs, engineVars, fireVars, edits, logs, ctlVars>>

\* POST /tasks/{id}/edit: the operator switches the enabled flag.
task_edit ==
  \E t \in Tasks :
    /\ edits < MaxEdits
    /\ edits' = edits + 1
    /\ tasks' = [tasks EXCEPT ![t].enabled = 1 - tasks[t].enabled]
    /\ UNCHANGED <<now, jobs, runs, nextId, engineVars, fireVars, logs, ctlVars>>

\* ------------------------------------------------------------ job catalogue
JobIds == {"j1", "j2"}

Range(f) == {f[i] : i \in DOMAIN f}

\* what reload_jobs finds at JOBS_FILE: no file, a file that cannot be read,
\* a file that is not JSON, JSON that is not a list, or a list of entries
\* (given by their ids, possibly repeated)
NoFile == [kind |-> "missing", items |-> <<>>]
BadFiles == {[kind |-> k, items |-> <<>>] : k \in {"unreadable", "badjson", "notalist"}}
ListFile(items) == [kind |-> "list", items |-> items]
ListFiles == {ListFile(items) : items \in UNION {[1..n -> JobIds] : n \in 0..MaxJobs}}
JobsFiles == {NoFile} \cup BadFiles \cup ListFiles

\* _load_jobs_from_file(path) for a file it accepts
load_jobs_from_file(file) == [job_map |-> Range(file.items), job_list |-> file.items]

\* reload_jobs(): the three blocks under _jobs_lock
ReloadJobs(file) ==
  IF file.kind = "missing"
  THEN /\ jobs' = {}
       /\ jobs_list' = <<>>
       /\ jobs_error' = "not_found"
  ELSE IF file.kind # "list"
  THEN /\ jobs_error' = "load_failed"
       /\ UNCHANGED <<jobs, jobs_list>>
  ELSE /\ jobs' = load_jobs_from_file(file).job_map
       /\ jobs_list' = load_jobs_from_file(file).job_list
       /\ jobs_error' = "none"

\* POST /jobs/reload while the engine runs: the file is gone, or lists j1
reload_jobs ==
  \E file \in {NoFile, ListFile(<<"j1">>)} :
    /\ edits < MaxEdits
    /\ edits' = edits + 1
    /\ ReloadJobs(file)
    /\ jobs' # jobs
    /\ UNCHANGED <<now, tasks, runs, nextId, engineVars, fireVars, logs, rb, faulted,
                   stopping, rd, next_run, probe>>

\* POST /jobs/reload with any content of the file
jobs_reload ==
  \E file \in JobsFiles :
    /\ edits < MaxReloads
    /\ edits' = edits + 1
    /\ ReloadJobs(file)
    /\ UNCHANGED <<now, tasks, runs, nextId, engineVars, fireVars, logs, rb, faulted,
                   stopping, rd, next_run, probe>>

\* list_jobs()
list_jobs == jobs_list

\* last_jobs_error()
last_jobs_error == jobs_error

\* get_job(job_id)
get_job(job_id) == job_id # NoJob /\ job_id \in jobs

\* GET /tasks/{id}: the page shows the task's job, get_job(t.job_id), and the
\* catalogue, list_jobs(): two calls, each under the lock for itself
IdleReader == [pc |-> "idle", job |-> FALSE, list |-> <<>>]

DetailGetJob(h) ==
  /\ rd[h].pc = "idle"
  /\ rd' = [rd EXCEPT ![h] = [pc |-> "list", job |-> get_job(TaskJob(1)), list |-> <<>>]]
  /\ UNCHANGED <<now, tasks, jobs, runs, nextId, engineVars, fireVars, edits, logs, rb,
                 faulted, stopping, jobs_list, jobs_error, next_run, probe>>

DetailListJobs(h) ==
  /\ rd[h].pc = "list"
  /\ rd' = [rd EXCEPT ![h].pc = "render", ![h].list = list_jobs]
  /\ UNCHANGED <<now, tasks, jobs, runs, nextId, engineVars, fireVars, edits, logs, rb,
                 faulted, stopping, jobs_list, jobs_error, next_run, probe>>

\* the template is rendered and the handler returns
DetailReturn(h) ==
  /\ rd[h].pc = "render"
  /\ rd' = [rd EXCEPT ![h] = IdleReader]
  /\ UNCHANGED <<now, tasks, jobs, runs, nextId, engineVars, fireVars, edits, logs, rb,
                 faulted, stopping, jobs_list, jobs_error, next_run, probe>>

\* ------------------------------------------------------------ dispatcher
Pending == {r \in DOMAIN runs : runs[r].status = "PENDING"}

Min2(a, b) == IF a < b THEN a ELSE b

\* mutant: the query without its ORDER BY
PendingSelections_Unordered ==
  LET n == Min2(MAX_WORKERS, Cardinality(Pending))
  IN {s \in [1..n -> Pending] : \A i, j \in 1..n : i < j => s[i] # s[j]}

\* mutant: the LIMIT is applied to all rows before the status filter, so
\* that only the first MAX_WORKERS rows of the table are ever looked at
PendingSelections_LimitFirst ==
  LET first == {r \in Pending : r <= MAX_WORKERS}
  IN {s \in [1..Cardinality(first) -> first] :
        \A i, j \in 1..Cardinality(first) : i < j => s[i] < s[j]}

\* SELECT id WHERE status = 'PENDING' ORDER BY scheduled_at LIMIT MAX_WORKERS:
\* the result lists that query can return (ties in any order).
PendingSelections ==
  LET n == Min2(MAX_WORKERS, Cardinality(Pending))
  IN {s \in [1..n -> Pending] :
        /\ \A i, j \in 1..n : i < j => s[i] # s[j]
        /\ \A i, j \in 1..n : i < j => runs[s[i]].scheduled_at <= runs[s[j]].scheduled_at
        /\ \A p \in Pending : (\A i \in 1..n : s[i] # p) =>
              \A i \in 1..n : runs[s[i]].scheduled_at <= runs[p].scheduled_at}

\* One tick of WorkerPool._loop: submit the selected ids to the executor.
\* Once stop() has run the loop ends, and a submit that is late raises in the
\* shut-down executor and is swallowed.
Dispatch ==
  /\ ~ stopping
  /\ Pending # {}
  /\ \E s \in PendingSelections :
       /\ Len(queue) + Len(s) <= MaxQueue
       /\ queue' = queue \o s
  /\ UNCHANGED <<now, tasks, jobs, runs, nextId, wk, alerts, alert_state, pushes, csv,
                 claimed, launches, concurrent, fireVars, edits, logs, ctlVars>>

\* WorkerPool.stop(): the event is set and the executor is shut down without
\* waiting.  shutdown(wait=False) cancels nothing: ids already submitted
\* stay in the work queue and the worker threads go on taking them.
stop ==
  /\ ~ stopping
  /\ stopping' = TRUE
  /\ UNCHANGED <<now, tasks, jobs, runs, nextId, engineVars, fireVars, edits, logs, rb,
                 faulted, catVars, next_run, probe>>

\* ---------------------------------------------------------- alert engine
\* maybe_send_alert: suppressed iff an AlertState row exists and is younger
\* than ALERT_SUPPRESS_SEC.
AlertSuppressed(task_id, alert_type) ==
  /\ <<task_id, alert_type>> \in DOMAIN alert_state
  /\ now - alert_state[<<task_id, alert_type>>] < ALERT_SUPPRESS_SEC

\* maybe_send_alert: upsert AlertState.last_sent_at, append the Alert row.
maybe_send_alert(task_id, alert_type) ==
  /\ alerts' = Append(alerts, [task_id |-> task_id, alert_type |-> alert_type,
                               suppressed |-> IF AlertSuppressed(task_id, alert_type)
                                              THEN 1 ELSE 0])
  /\ alert_state' = [k \in DOMAIN alert_state \cup {<<task_id, alert_type>>} |->
                       IF k = <<task_id, alert_type>> THEN now ELSE alert_state[k]]
  /\ pushes' = IF AlertSuppressed(task_id, alert_type) THEN pushes
               ELSE Append(pushes, [task_id |-> task_id, alert_type |-> alert_type,
                                    at |-> now])

\* --------------------------------------------------------- metrics writer
\* csv rows of the parsed pairs, stamped with the current time.
CsvRows(pairs, ts) ==
  [i \in 1..Len(pairs) |-> [ts |-> ts, key |-> pairs[i].key, value |-> pairs[i].value]]

\* mutant: the append loop stops after the first pair
CsvAppend_FirstOnly(rows, pairs, ts) == rows \o SubSeq(CsvRows(pairs, ts), 1, 1)

\* the append loop of write_metrics_csv
CsvAppend(rows, pairs, ts) == rows \o CsvRows(pairs, ts)

\* _prune_metrics_file: keep the rows not older than the retention.
PruneMetrics(rows) ==
  IF METRICS_RETENTION_DAYS <= 0 THEN rows
  ELSE SelectSeq(rows, LAMBDA r : r.ts >= now - METRICS_RETENTION_DAYS)

\* ------------------------------------------------------------ log rotator
\* now_local_naive().date(), as a day number
LogDay(t) == t \div DayTicks

\* keep_days = max(LOG_BACKUP_COUNT, 1)
KeepDays == IF LOG_BACKUP_COUNT > 1 THEN LOG_BACKUP_COUNT ELSE 1

\* mutant: the cleanup keeps every file
IsOldLog_Never(d, t) == FALSE

\* _cleanup_old_run_logs: file_date < cutoff
IsOldLog(d, t) == d < LogDay(t) - KeepDays

\* _cleanup_old_run_logs when the listing and every removal succeed
CleanedLogs(files, t) == {d \in files : ~ IsOldLog(d, t)}

\* _cleanup_old_run_logs: errors of os.listdir and os.remove are swallowed,
\* so any of the old files may survive
cleanup_old_run_logs(files, t) ==
  {fs \in SUBSET files : CleanedLogs(files, t) \subseteq fs}

\* the files of write_run_logs before the cleanup: today's file is opened
\* for append when there is output
AppendedLogs(files, stdout, t) ==
  files \cup (IF stdout # <<>> THEN {LogDay(t)} ELSE {})

\* the directory write_run_logs leaves when nothing fails
LogsWritten(files, stdout, t) == CleanedLogs(AppendedLogs(files, stdout, t), t)

\* write_run_logs: the directories it can leave
write_run_logs(files, stdout, t) ==
  cleanup_old_run_logs(AppendedLogs(files, stdout, t), t)

\* ------------------------------------------------------- execution engine
\* mutant: the claim UPDATE without its status condition
ClaimMatches_AnyStatus(row) == TRUE

\* mutant: the claim UPDATE also matches a row that is RUNNING
ClaimMatches_NotTerminal(row) == row.status \in {"PENDING", "RUNNING"}

\* WHERE clause of the claim UPDATE
ClaimMatches(row) == row.status = "PENDING"

\* mutant: the claimer proceeds without looking at the row count
ClaimObserved_Always(rowcount) == TRUE

\* the claimer proceeds iff the UPDATE changed a row
ClaimObserved(rowcount) == rowcount # 0

\* mutant: the sweep matches no row
SweepMatches_Never(row, cutoff) == FALSE

\* WHERE clause of the zombie sweep
SweepMatches(row, cutoff) ==
  row.status = "RUNNING" /\ row.started_at # None /\ row.started_at < cutoff

\* acquire_task_mutex: no other RUNNING run of the task
acquire_task_mutex(task_id, run_id) ==
  ~ \E r \in DOMAIN runs :
      runs[r].task_id = task_id /\ runs[r].status = "RUNNING" /\ r # run_id

\* mutant: the status is taken from the exit code alone
Classify_ExitCodeOnly(res) == IF res.exit_code = 0 THEN "SUCCESS" ELSE "FAILED"

\* status recorded for a supervisor result
Classify(res) ==
  IF res.timed_out THEN "TIMEOUT"
  ELSE IF res.exit_code = 0 THEN "SUCCESS" ELSE "FAILED"

\* skip_logs of _execute_single
SkipLogs(task_id, res) ==
  tasks[task_id].type = "monitor" /\ ~ res.timed_out /\ res.exit_code = 0

\* mutant: the cleanup never deletes a row
MonitorCleanup_Never(type, status) == FALSE

\* _execute_single deletes the row of a successful monitor run
MonitorCleanup(type, status) == type = "monitor" /\ status = "SUCCESS"

\* pairs that _execute_single hands to write_metrics_csv
MetricPairs(task_id, res) ==
  IF tasks[task_id].type = "monitor" /\ parse_out_line(res.stdout) # <<>>
  THEN parse_metrics_tokens(parse_out_line(res.stdout))
  ELSE <<>>

\* ----------------------------------------------------- process supervisor
\* statuses a child reports: on its own, and after SIGTERM
ExitStatuses == {0, 1}
TermStatuses == {0, 0 - 15}

\* p.returncode or dflt
OrElse(returncode, dflt) == IF returncode # 0 THEN returncode ELSE dflt

\* mutant: the TERM path reports the child's status as a normal exit
TermResult_NotTimedOut(rc, out) ==
  [exit_code |-> IF rc # 0 THEN rc ELSE 124, timed_out |-> FALSE, stdout |-> out]

\* ExecResult of the three return statements of run_argv_killpg
ExitResult(rc, out) == [exit_code |-> OrElse(rc, 0), timed_out |-> FALSE, stdout |-> out]
TermResult(rc, out) == [exit_code |-> OrElse(rc, 124), timed_out |-> TRUE, stdout |-> out]
KillResult(out) == [exit_code |-> 137, timed_out |-> TRUE, stdout |-> out]

\* run_argv_killpg: the ways a launched child ends and what is returned.
\* child = "exit": it exits before timeout_sec; "term": still running at the
\* timeout, it exits within term_grace_sec of SIGTERM; "kill": it outlives
\* the grace period and is sent SIGKILL.
run_argv_killpg(outs) ==
  {[child |-> "exit", rc |-> rc, res |-> ExitResult(rc, out)] :
      rc \in ExitStatuses, out \in outs}
  \cup {[child |-> "term", rc |-> rc, res |-> TermResult(rc, out)] :
      rc \in TermStatuses, out \in outs}
  \cup {[child |-> "kill", rc |-> 0 - 9, res |-> KillResult(out)] : out \in outs}

\* ------------------------------------------ supervisor, statement by statement
\* Phases of a supervised child's life: 1 = before timeout_sec has passed,
\* 2 = within term_grace_sec after that, 3 = later.
Phases == 1..3

\* the status a child reports when it exits in a phase: on its own, on its
\* own or by SIGTERM, by SIGKILL
ChildStatus(phase) ==
  CASE phase = 1 -> ExitStatuses
    [] phase = 2 -> ExitStatuses \cup TermStatuses
    [] phase = 3 -> {0 - 9}

\* A child: the phase in which it exits, the phase in which its stdout and
\* stderr pipes reach end of file (with its exit, or later when a process it
\* started keeps them open until the group is signalled), its status and
\* its output.
Children ==
  {c \in [exit : Phases, eof : Phases, rc : {0, 1, 0 - 15, 0 - 9}, out : Stdouts] :
     c.eof >= c.exit /\ c.rc \in ChildStatus(c.exit)}

NoChild == [exit |-> 1, eof |-> 1, rc |-> 0, out |-> <<>>]

IdleProbe == [pc |-> "idle", c |-> NoChild, signals |-> <<>>, res |-> NoRes]

\* p.communicate(timeout) on child c returns in the given phase iff the
\* pipes are at end of file (the child has exited by then: eof >= exit)
CommunicateReturns(c, phase) == c.eof <= phase

ProbeFrame ==
  UNCHANGED <<now, tasks, jobs, runs, nextId, engineVars, fireVars, edits, logs, rb,
              faulted, stopping, catVars, next_run>>

\* subprocess.Popen(argv, ..., preexec_fn=os.setsid)
Popen ==
  /\ probe.pc = "idle"
  /\ \E c \in Children : probe' = [IdleProbe EXCEPT !.pc = "communicate", !.c = c]
  /\ ProbeFrame

\* out, err = p.communicate(timeout=timeout_sec), and the first return
CommunicateTimeout ==
  /\ probe.pc = "communicate"
  /\ probe' = IF CommunicateReturns(probe.c, 1)
              THEN [probe EXCEPT !.pc = "done",
                                 !.res = ExitResult(probe.c.rc, probe.c.out)]
              ELSE [probe EXCEPT !.pc = "term"]
  /\ ProbeFrame

\* except TimeoutExpired: os.killpg(os.getpgid(p.pid), signal.SIGTERM)
KillpgTerm ==
  /\ probe.pc = "term"
  /\ probe' = [probe EXCEPT !.pc = "grace", !.signals = Append(@, "SIGTERM")]
  /\ ProbeFrame

\* out, err = p.communicate(timeout=term_grace_sec), and the second return
CommunicateGrace ==
  /\ probe.pc = "grace"
  /\ probe' = IF CommunicateReturns(probe.c, 2)
              THEN [probe EXCEPT !.pc = "done",
                                 !.res = TermResult(probe.c.rc, probe.c.out)]
              ELSE [probe EXCEPT !.pc = "kill"]
  /\ ProbeFrame

\* except TimeoutExpired: os.killpg(os.getpgid(p.pid), signal.SIGKILL)
KillpgKill ==
  /\ probe.pc = "kill"
  /\ probe' = [probe EXCEPT !.pc = "rest", !.signals = Append(@, "SIGKILL")]
  /\ ProbeFrame

\* out, err = p.communicate(), and the third return
CommunicateRest ==
  /\ probe.pc = "rest"
  /\ probe' = [probe EXCEPT !.pc = "done", !.res = KillResult(probe.c.out)]
  /\ ProbeFrame

\* --------------------------------------------------------- worker threads
\* workers that hold a claimed run and have not yet passed the mutex check
PreMutex(w) == wk[w].pc \in {"sweep", "gate"}

\* the run row the worker's session refers to exists (db.get found it)
HasRow(w) == wk[w].rid \in DOMAIN runs

Goto(w, pc) == [wk EXCEPT ![w].pc = pc]
Done(w) == [wk EXCEPT ![w] = IdleWorker]

\* _run_one / execute_one_run, atomic claim: a free worker thread takes the
\* next submitted id and runs UPDATE ... WHERE id = ? AND status = 'PENDING'
\* with started_at = now_utc().  The threads are interchangeable, so the
\* free thread with the lowest index takes the id.
Claim(w) ==
  /\ wk[w].pc = "idle"
  /\ \A v \in Workers : v < w => wk[v].pc # "idle"
  /\ queue # <<>>
  /\ queue' = Tail(queue)
  /\ LET r == Head(queue)
         rowcount == IF r \in DOMAIN runs /\ ClaimMatches(runs[r]) THEN 1 ELSE 0
     IN /\ runs' = IF rowcount = 1
                   THEN [runs EXCEPT ![r].status = "RUNNING", ![r].started_at = now]
                   ELSE runs
        /\ IF ClaimObserved(rowcount) /\ r \in DOMAIN runs
           THEN /\ wk' = [wk EXCEPT ![w].pc = "sweep", ![w].rid = r]
                /\ claimed' = [claimed EXCEPT ![r] = @ + 1]
                /\ concurrent' = concurrent \cup
                     {{r, wk[v].rid} : v \in {u \in Workers \ {w} :
                         /\ PreMutex(u)
                         /\ wk[u].rid # r
                         /\ wk[u].rid \in DOMAIN runs
                         /\ runs[wk[u].rid].task_id = runs[r].task_id}}
           ELSE /\ wk' = [wk EXCEPT ![w].pc = "abandon", ![w].rid = r]
                /\ UNCHANGED <<claimed, concurrent>>
  /\ UNCHANGED <<now, tasks, jobs, nextId, alerts, alert_state, pushes, csv,
                 launches, fireVars, edits, logs, ctlVars>>

\* execute_one_run: the claim changed no row; commit and return
Abandon(w) ==
  /\ wk[w].pc = "abandon"
  /\ wk' = Done(w)
  /\ UNCHANGED <<now, tasks, jobs, runs, nextId, queue, alerts, alert_state, pushes, csv,
                 claimed, launches, concurrent, fireVars, edits, logs, ctlVars>>

\* execute_one_run, zombie recovery
Sweep(w) ==
  /\ wk[w].pc = "sweep"
  /\ LET cutoff == now - RUN_ZOMBIE_SEC
     IN runs' = [r \in DOMAIN runs |->
                   IF SweepMatches(runs[r], cutoff)
                   THEN [runs[r] EXCEPT !.status = "FAILED", !.finished_at = now,
                                        !.error_message = "zombie"]
                   ELSE runs[r]]
  /\ wk' = Goto(w, "gate")
  /\ UNCHANGED <<now, tasks, jobs, nextId, queue, alerts, alert_state, pushes, csv,
                 claimed, launches, concurrent, fireVars, edits, logs, ctlVars>>

\* mutant: the task gate lets every task through
TaskGateSkips_Never(t) == FALSE

\* execute_one_run: if not task or task.enabled != 1
TaskGateSkips(t) == tasks[t].enabled # 1

\* execute_one_run from the task gate to the launch of the subprocess: task
\* gate, reentrancy check, then _execute_single's job lookup and Popen.  No
\* commit separates these reads; the rejection that follows a failed
\* reentrancy check is written by Reject.
TaskGate(w) ==
  /\ wk[w].pc = "gate"
  /\ HasRow(w)
  /\ LET r == wk[w].rid
         t == runs[r].task_id
     IN IF TaskGateSkips(t)
        THEN /\ runs' = [runs EXCEPT ![r].status = "SKIPPED", ![r].finished_at = now]
             /\ wk' = Done(w)
             /\ UNCHANGED launches
        ELSE IF ~ acquire_task_mutex(t, r)
        THEN /\ wk' = [wk EXCEPT ![w].pc = "reject", ![w].task = t]
             /\ UNCHANGED <<runs, launches>>
        ELSE IF ~ get_job(TaskJob(t))
        THEN /\ runs' = [runs EXCEPT ![r].status = "FAILED", ![r].finished_at = now,
                                     ![r].exit_code = 97,
                                     ![r].error_message = "job_missing"]
             /\ wk' = [wk EXCEPT ![w].pc = "alert", ![w].task = t,
                                 ![w].kind = "job_missing"]
             /\ UNCHANGED launches
        ELSE \/ /\ wk' = [wk EXCEPT ![w].pc = "wait", ![w].task = t]
                /\ launches' = [launches EXCEPT ![r] = @ + 1]
                /\ UNCHANGED runs
             \/ \* subprocess.Popen raises
                /\ wk' = [wk EXCEPT ![w].pc = "catch", ![w].task = t]
                /\ UNCHANGED <<runs, launches>>
  /\ UNCHANGED <<now, tasks, jobs, nextId, queue, alerts, alert_state, pushes, csv,
                 claimed, concurrent, fireVars, edits, logs, ctlVars>>

\* execute_one_run: the reentrancy check found another RUNNING run; the
\* rejection is written and committed
Reject(w) ==
  /\ wk[w].pc = "reject"
  /\ HasRow(w)
  /\ runs' = [runs EXCEPT ![wk[w].rid].status = "FAILED",
                          ![wk[w].rid].finished_at = now,
                          ![wk[w].rid].exit_code = 99,
                          ![wk[w].rid].error_message = "reentry"]
  /\ wk' = [wk EXCEPT ![w].pc = "alert", ![w].kind = "reentry"]
  /\ UNCHANGED <<now, tasks, jobs, nextId, queue, alerts, alert_state, pushes, csv,
                 claimed, launches, concurrent, fireVars, edits, logs, ctlVars>>

\* _execute_single: run_argv_killpg returns
Supervise(w) ==
  /\ wk[w].pc = "wait"
  /\ \E x \in run_argv_killpg(TaskStdouts(tasks[wk[w].task].type)) :
       wk' = [wk EXCEPT ![w].pc = "persist", ![w].child = x.child, ![w].rc = x.rc,
                        ![w].res = x.res]
  /\ UNCHANGED <<now, tasks, jobs, runs, nextId, queue, alerts, alert_state, pushes, csv,
                 claimed, launches, concurrent, fireVars, edits, logs, ctlVars>>

\* _execute_single: log capture, classification and commit of the result
Persist(w) ==
  /\ wk[w].pc = "persist"
  /\ HasRow(w)
  /\ LET r == wk[w].rid
         res == wk[w].res
     IN \/ \* write_run_logs raises
           /\ ~ SkipLogs(wk[w].task, res)
           /\ wk' = Goto(w, "catch")
           /\ UNCHANGED <<runs, logs>>
        \/ /\ runs' = [runs EXCEPT ![r].status = Classify(res),
                                   ![r].exit_code = res.exit_code,
                                   ![r].finished_at = now]
           /\ IF SkipLogs(wk[w].task, res)
              THEN /\ UNCHANGED logs
                   /\ wk' = [wk EXCEPT ![w].pc = "metrics", ![w].child = "none",
                                       ![w].rc = 0, ![w].logio = "skip"]
              ELSE \E files \in write_run_logs(logs, res.stdout, now) :
                     /\ logs' = files
                     /\ wk' = [wk EXCEPT ![w].pc = "metrics", ![w].child = "none",
                                         ![w].rc = 0,
                                         ![w].logio =
                                            IF files = LogsWritten(logs, res.stdout, now)
                                            THEN "ok" ELSE "ioerr"]
  /\ UNCHANGED <<now, tasks, jobs, nextId, queue, alerts, alert_state, pushes, csv,
                 claimed, launches, concurrent, fireVars, edits, ctlVars>>

\* _execute_single: write_metrics_csv appends the pairs and prunes the file
Metrics(w) ==
  /\ wk[w].pc = "metrics"
  /\ LET t == wk[w].task
         pairs == MetricPairs(t, wk[w].res)
     IN IF pairs = <<>>
        THEN /\ wk' = [wk EXCEPT ![w].pc = "cleanup", ![w].csvio = "skip", ![w].res = NoRes]
             /\ UNCHANGED csv
        ELSE \/ \* ensure_dir raises
                /\ wk' = Goto(w, "catch")
                /\ UNCHANGED csv
             \/ /\ csv' = [csv EXCEPT ![t] = PruneMetrics(CsvAppend(@, pairs, now))]
                /\ wk' = [wk EXCEPT ![w].pc = "cleanup", ![w].csvio = "ok",
                                    ![w].res = NoRes]
             \/ \* a swallowed I/O error: the append raises, or the rewrite of
                \* _prune_metrics_file fails after truncating the file
                /\ \E rows \in {PruneMetrics(csv[t]), <<>>} :
                     csv' = [csv EXCEPT ![t] = rows]
                /\ wk' = [wk EXCEPT ![w].pc = "cleanup", ![w].csvio = "ioerr",
                                    ![w].res = NoRes]
  /\ UNCHANGED <<now, tasks, jobs, runs, nextId, queue, alerts, alert_state, pushes,
                 claimed, launches, concurrent, fireVars, edits, logs, ctlVars>>

\* _execute_single: monitor cleanup, or the exec_failed alert
Cleanup(w) ==
  /\ wk[w].pc = "cleanup"
  /\ HasRow(w)
  /\ LET r == wk[w].rid
     IN IF MonitorCleanup(tasks[wk[w].task].type, runs[r].status)
        THEN /\ runs' = [x \in DOMAIN runs \ {r} |-> runs[x]]
             /\ wk' = Done(w)
        ELSE IF runs[r].status \in {"FAILED", "TIMEOUT"}
        THEN /\ wk' = [wk EXCEPT ![w].pc = "alert", ![w].kind = "exec_failed",
                                 ![w].csvio = "none", ![w].logio = "none"]
             /\ UNCHANGED runs
        ELSE /\ wk' = Done(w)
             /\ UNCHANGED runs
  /\ UNCHANGED <<now, tasks, jobs, nextId, queue, alerts, alert_state, pushes, csv,
                 claimed, launches, concurrent, fireVars, edits, logs, ctlVars>>

\* execute_one_run, except Exception
Catch(w) ==
  /\ wk[w].pc = "catch"
  /\ HasRow(w)
  /\ runs' = [runs EXCEPT ![wk[w].rid].status = "FAILED",
                          ![wk[w].rid].finished_at = now,
                          ![wk[w].rid].exit_code = 98,
                          ![wk[w].rid].error_message = "internal_error"]
  /\ wk' = [wk EXCEPT ![w].pc = "alert", ![w].kind = "internal_error",
                      ![w].res = NoRes, ![w].child = "none", ![w].rc = 0,
                      ![w].csvio = "none", ![w].logio = "none"]
  /\ UNCHANGED <<now, tasks, jobs, nextId, queue, alerts, alert_state, pushes, csv,
                 claimed, launches, concurrent, fireVars, edits, logs, ctlVars>>

\* the maybe_send_alert call that ends a failed path; execute_one_run returns
Alert(w) ==
  /\ wk[w].pc = "alert"
  /\ maybe_send_alert(wk[w].task, wk[w].kind)
  /\ wk' = Done(w)
  /\ UNCHANGED <<now, tasks, jobs, runs, nextId, queue, csv,
                 claimed, launches, concurrent, fireVars, edits, logs, ctlVars>>

\* ------------------------------- alert engine, statement by statement
\* kinds raised by two runs of one task at the same time
AlertKinds == {"reentry", "exec_failed"}

\* the AlertState row of (task, kind) as a SELECT finds it: its
\* last_sent_at, or None when there is no row
AlertStateRead(task_id, alert_type) ==
  IF <<task_id, alert_type>> \in DOMAIN alert_state
  THEN alert_state[<<task_id, alert_type>>]
  ELSE None

\* suppressed, computed from the row that was read
SuppressedAt(st, at) == st # None /\ at - st < ALERT_SUPPRESS_SEC

\* a worker thread arrives at a maybe_send_alert call of the engine
AlertCall(w) ==
  /\ wk[w].pc = "idle"
  /\ Len(alerts) + Cardinality({v \in Workers : wk[v].pc # "idle"}) < MaxAlerts
  /\ \E t \in Tasks, k \in AlertKinds :
       wk' = [wk EXCEPT ![w].pc = "alert", ![w].task = t, ![w].kind = k]
  /\ UNCHANGED <<now, tasks, jobs, runs, nextId, queue, alerts, alert_state, pushes, csv,
                 claimed, launches, concurrent, fireVars, edits, logs, ctlVars>>

\* maybe_send_alert: now = now_utc() and the SELECT of the AlertState row
AlertRead(w) ==
  /\ wk[w].pc = "alert"
  /\ wk' = [wk EXCEPT ![w].pc = "alert_commit", ![w].at = now,
                      ![w].st = AlertStateRead(wk[w].task, wk[w].kind)]
  /\ UNCHANGED <<now, tasks, jobs, runs, nextId, queue, alerts, alert_state, pushes, csv,
                 claimed, launches, concurrent, fireVars, edits, logs, ctlVars>>

\* maybe_send_alert: the AlertState upsert and the Alert row are committed,
\* then the push script is started unless suppressed
AlertCommit(w) ==
  /\ wk[w].pc = "alert_commit"
  /\ LET key == <<wk[w].task, wk[w].kind>>
         sup == SuppressedAt(wk[w].st, wk[w].at)
     IN IF wk[w].st = None /\ key \in DOMAIN alert_state
        THEN \* the INSERT breaks uq_alert_state: the commit raises, into
             \* the handler of execute_one_run if the call was made inside
             \* _execute_single, else out of execute_one_run
             /\ UNCHANGED <<alerts, alert_state, pushes>>
             /\ wk' = IF HasRow(w) /\ wk[w].kind \in {"exec_failed", "job_missing"}
                      THEN Goto(w, "catch") ELSE Done(w)
        ELSE /\ wk' = Done(w)
             /\ alerts' = Append(alerts, [task_id |-> wk[w].task,
                                          alert_type |-> wk[w].kind,
                                          suppressed |-> IF sup THEN 1 ELSE 0])
             /\ alert_state' = [k \in DOMAIN alert_state \cup {key} |->
                                  IF k = key THEN wk[w].at ELSE alert_state[k]]
             /\ pushes' = IF sup THEN pushes
                          ELSE Append(pushes, [task_id |-> wk[w].task,
                                               alert_type |-> wk[w].kind,
                                               at |-> wk[w].at])
  /\ UNCHANGED <<now, tasks, jobs, runs, nextId, queue, csv,
                 claimed, launches, concurrent, fireVars, edits, logs, ctlVars>>

\* ---------------------------------------------------- database failures
\* A statement or commit of the worker's session raises (the SQLite file is
\* locked, the disk is full).  Each action is one place of execute_one_run
\* where that can happen, with the handling the code has for it there.
WorkerFrame ==
  UNCHANGED <<now, tasks, jobs, runs, nextId, queue, alerts, alert_state, pushes, csv,
              claimed, launches, concurrent, fireVars, edits, logs, rb, stopping,
              catVars, next_run, probe>>

Raise(w) == faulted' = faulted \cup {wk[w].rid}

\* the zombie sweep raises: its except Exception rolls back and the run
\* goes on to the task gate
SweepFails(w) ==
  /\ wk[w].pc = "sweep"
  /\ Raise(w)
  /\ wk' = Goto(w, "gate")
  /\ WorkerFrame

\* db.get(Task) or the query of acquire_task_mutex raises, outside any try:
\* the exception leaves execute_one_run and ends in the worker's future
GateFails(w) ==
  /\ wk[w].pc = "gate"
  /\ HasRow(w)
  /\ Raise(w)
  /\ wk' = Done(w)
  /\ WorkerFrame

\* the commit of the reentrancy rejection raises, outside any try
RejectFails(w) ==
  /\ wk[w].pc = "reject"
  /\ Raise(w)
  /\ wk' = Done(w)
  /\ WorkerFrame

\* the commit of the result raises inside _execute_single
PersistFails(w) ==
  /\ wk[w].pc = "persist"
  /\ Raise(w)
  /\ wk' = Goto(w, "catch")
  /\ WorkerFrame

\* the commit of the monitor cleanup raises inside _execute_single
CleanupFails(w) ==
  /\ wk[w].pc = "cleanup"
  /\ HasRow(w)
  /\ MonitorCleanup(tasks[wk[w].task].type, runs[wk[w].rid].status)
  /\ Raise(w)
  /\ wk' = Goto(w, "catch")
  /\ WorkerFrame

\* maybe_send_alert raises: inside _execute_single (exec_failed, job_missing)
\* the outer handler catches it, elsewhere it leaves execute_one_run
AlertFails(w) ==
  /\ wk[w].pc = "alert"
  /\ Raise(w)
  /\ wk' = IF wk[w].kind \in {"exec_failed", "job_missing"}
           THEN Goto(w, "catch") ELSE Done(w)
  /\ WorkerFrame

\* the commit of the except handler itself raises
CatchFails(w) ==
  /\ wk[w].pc = "catch"
  /\ Raise(w)
  /\ wk' = Done(w)
  /\ WorkerFrame

Fault(w) ==
  \/ SweepFails(w) \/ GateFails(w) \/ RejectFails(w) \/ PersistFails(w)
  \/ CleanupFails(w) \/ AlertFails(w) \/ CatchFails(w)

\* ------------------------------------------------------ trigger evaluator
Policies == {"NONE", "CN_WORKDAY_ONLY", "SKIP_CN_HOLIDAY", "SKIP_CN_WORKDAY", "OTHER"}

\* what the chinese_calendar import and its two queries give for today:
\* ok = FALSE when the import or a query raises
Oracles ==
  {[ok |-> FALSE, is_workday |-> FALSE, is_holiday |-> FALSE]}
  \cup {[ok |-> TRUE, is_workday |-> a, is_holiday |-> b] : a, b \in BOOLEAN}

\* mutant: an oracle failure blocks the firing
holiday_allowed_FailClosed(policy, o) ==
  IF policy = "NONE" THEN TRUE
  ELSE IF ~ o.ok THEN FALSE
  ELSE IF policy = "CN_WORKDAY_ONLY" THEN o.is_workday
  ELSE IF policy = "SKIP_CN_HOLIDAY" THEN ~ o.is_holiday
  ELSE IF policy = "SKIP_CN_WORKDAY" THEN ~ o.is_workday
  ELSE TRUE

\* holiday_allowed(policy), given today's oracle answers
holiday_allowed(policy, o) ==
  IF policy = "NONE" THEN TRUE
  ELSE IF ~ o.ok THEN TRUE
  ELSE IF policy = "CN_WORKDAY_ONLY" THEN o.is_workday
  ELSE IF policy = "SKIP_CN_HOLIDAY" THEN ~ o.is_holiday
  ELSE IF policy = "SKIP_CN_WORKDAY" THEN ~ o.is_workday
  ELSE TRUE

NoCfg == [valid |-> TRUE, deadline_at |-> None, start_before_days |-> 0]

\* deadline_config values: unparsable JSON, no deadline_at, and two windows
DeadlineCfgs ==
  {[valid |-> FALSE, deadline_at |-> None, start_before_days |-> 0],
   [valid |-> TRUE, deadline_at |-> None, start_before_days |-> 1],
   [valid |-> TRUE, deadline_at |-> 1, start_before_days |-> 0],
   [valid |-> TRUE, deadline_at |-> 1, start_before_days |-> 1]}

\* mutant: the start of the window is not looked at
BeforeWindow_Ignored(cfg, t) == FALSE

\* _fire: now < start_dt, with start_dt = deadline_dt - start_before_days days
BeforeWindow(cfg, t) == t < cfg.deadline_at - cfg.start_before_days * DayTicks

\* mutant: the deadline is never found to have passed
PastDeadline_Never(cfg, t) == FALSE

\* _fire: now > deadline_dt
PastDeadline(cfg, t) == t > cfg.deadline_at

\* AppScheduler._reload_jobs: one job per enabled trigger
ReloadedJobs(trs) == {t \in DOMAIN trs : trs[t].enabled = 1}

\* IntervalTrigger(seconds = interval_sec) built at time t: with no start
\* date given, the first run time is the time of construction plus the
\* interval
FirstRun(t) == t + IntervalSec

NoFire ==
  [trigger_id |-> 0, policy |-> "NONE", oracle |-> CHOOSE o \in Oracles : ~ o.ok,
   trig_enabled |-> FALSE, task_enabled |-> FALSE, gate |-> "none",
   enqueued |-> FALSE]

\* passage of time while the scheduler runs
FireTick ==
  /\ now < MaxFireTime
  /\ now' = now + 1
  /\ UNCHANGED <<tasks, jobs, runs, nextId, engineVars, fireVars, edits, logs, ctlVars>>

\* POST /tasks/{id}/trigger/add
add_trigger ==
  /\ Cardinality(DOMAIN triggers) < MaxTriggers
  /\ \E task_id \in Tasks, p \in Policies, cfg \in DeadlineCfgs \cup {NoCfg} :
       LET id == Cardinality(DOMAIN triggers) + 1
           row == [task_id |-> task_id,
                   trigger_type |-> IF cfg = NoCfg THEN "interval" ELSE "deadline",
                   holiday_policy |-> p, enabled |-> 1, deadline_config |-> cfg]
       IN /\ triggers' = [t \in DOMAIN triggers \cup {id} |->
                            IF t = id THEN row ELSE triggers[t]]
          /\ sched' = ReloadedJobs(triggers')
  /\ UNCHANGED <<now, tasks, jobs, runs, nextId, engineVars, fired, edits, logs, ctlVars>>

\* POST /triggers/{id}/edit with the type and configuration left as they are
trigger_edit ==
  \E t \in DOMAIN triggers, en \in {0, 1}, p \in Policies :
    /\ triggers' = [triggers EXCEPT ![t].enabled = en, ![t].holiday_policy = p]
    /\ triggers' # triggers
    /\ sched' = ReloadedJobs(triggers')
    /\ UNCHANGED <<now, tasks, jobs, runs, nextId, engineVars, fired, edits, logs, ctlVars>>

\* AppScheduler._fire(trigger_id)
fire(t) ==
  /\ t \in DOMAIN triggers
  /\ \E o \in Oracles :
       LET tr == triggers[t]
           cfg == tr.deadline_config
           gate == IF tr.enabled # 1 THEN "none"
                   ELSE IF holiday_allowed(tr.holiday_policy, o) THEN "pass"
                   ELSE "block"
           log == [trigger_id |-> t, policy |-> tr.holiday_policy, oracle |-> o,
                   trig_enabled |-> tr.enabled = 1,
                   task_enabled |-> tasks[tr.task_id].enabled = 1,
                   gate |-> gate, enqueued |-> FALSE]
       IN IF gate # "pass" \/ tasks[tr.task_id].enabled # 1
          THEN /\ fired' = log
               /\ UNCHANGED <<triggers, runs, nextId>>
          ELSE IF tr.trigger_type = "deadline"
                  /\ (~ cfg.valid \/ cfg.deadline_at = None \/ BeforeWindow(cfg, now))
          THEN /\ fired' = log
               /\ UNCHANGED <<triggers, runs, nextId>>
          ELSE IF tr.trigger_type = "deadline" /\ PastDeadline(cfg, now)
          THEN /\ fired' = log
               /\ triggers' = [triggers EXCEPT ![t].enabled = 0]
               /\ UNCHANGED <<runs, nextId>>
          ELSE /\ enqueue_run(tr.task_id, t)
               /\ fired' = [log EXCEPT !.enqueued = TRUE]
               /\ UNCHANGED triggers
  /\ UNCHANGED <<now, tasks, jobs, sched, engineVars, edits, logs, rb, faulted, stopping,
                 catVars, probe>>

\* the scheduler calls _fire for a job of its job set, at whatever time
Fire(t) ==
  /\ t \in sched
  /\ fire(t)
  /\ UNCHANGED next_run

\* ------------------------------------------------------- interval firing
\* Next run times are followed for the interval trigger below; the actions
\* above let a job of the job set fire at any time.
IntervalTrigger ==
  [task_id |-> 1, trigger_type |-> "interval", holiday_policy |-> "NONE",
   enabled |-> 1, deadline_config |-> NoCfg]

\* time passes, but not past a run time that is due: the scheduler thread
\* wakes up for it
IntervalTick ==
  /\ now < MaxIntervalTime
  /\ \A t \in DOMAIN next_run : next_run[t] > now
  /\ now' = now + 1
  /\ UNCHANGED <<tasks, jobs, runs, nextId, engineVars, fireVars, edits, logs, rb,
                 faulted, stopping, catVars, next_run, probe>>

\* scheduler._reload_jobs() at the end of a mutation handler that leaves
\* the triggers and the task as they are (a task renamed with POST
\* /tasks/{id}/edit): all jobs are removed and built anew
scheduler_reload_jobs ==
  /\ edits < MaxRebuilds
  /\ edits' = edits + 1
  /\ sched' = ReloadedJobs(triggers)
  /\ next_run' = [t \in ReloadedJobs(triggers) |-> FirstRun(now)]
  /\ UNCHANGED <<now, tasks, jobs, runs, nextId, engineVars, triggers, fired, logs, rb,
                 faulted, stopping, catVars, probe>>

\* the scheduler runs a job whose run time has come
IntervalFire(t) ==
  /\ t \in DOMAIN next_run
  /\ next_run[t] <= now
  /\ fire(t)
  /\ next_run' = [next_run EXCEPT ![t] = @ + IntervalSec]

\* ------------------------------------------------------ scheduler rebuilds
\* The mutation handlers are plain functions, which the web server runs on
\* the threads of its pool: each commits its change and then calls
\* scheduler._reload_jobs(), which takes no lock.
Handlers == 1..2

IdleHandler == [pc |-> "idle", todo |-> {}]

MinOf(S) == CHOOSE x \in S : \A y \in S : x <= y

\* a handler up to its db.commit(): a trigger is added, or an existing one
\* has its enabled flag switched
TriggerCommit(h) ==
  /\ rb[h].pc = "idle"
  /\ edits < MaxRebuilds
  /\ edits' = edits + 1
  /\ \/ /\ Cardinality(DOMAIN triggers) < MaxSchedTriggers
        /\ LET id == Cardinality(DOMAIN triggers) + 1
               row == [task_id |-> 1, trigger_type |-> "interval",
                       holiday_policy |-> "NONE", enabled |-> 1,
                       deadline_config |-> NoCfg]
           IN triggers' = [t \in DOMAIN triggers \cup {id} |->
                             IF t = id THEN row ELSE triggers[t]]
     \/ \E t \in DOMAIN triggers :
          triggers' = [triggers EXCEPT ![t].enabled = 1 - @]
  /\ rb' = [rb EXCEPT ![h].pc = "remove"]
  /\ UNCHANGED <<now, tasks, jobs, runs, nextId, engineVars, sched, fired, logs, faulted, stopping, catVars, next_run, probe>>

\* self.sched.remove_all_jobs()
RemoveAllJobs(h) ==
  /\ rb[h].pc = "remove"
  /\ sched' = {}
  /\ rb' = [rb EXCEPT ![h].pc = "read"]
  /\ UNCHANGED <<now, tasks, jobs, runs, nextId, engineVars, triggers, fired, edits, logs, faulted, stopping, catVars, next_run, probe>>

\* the select of the enabled triggers, in its own session
ReadEnabled(h) ==
  /\ rb[h].pc = "read"
  /\ rb' = [rb EXCEPT ![h].pc = "add", ![h].todo = ReloadedJobs(triggers)]
  /\ UNCHANGED <<now, tasks, jobs, runs, nextId, engineVars, fireVars, edits, logs, faulted, stopping, catVars, next_run, probe>>

\* one turn of the loop: add_job(..., id = trigger_<id>, replace_existing = True)
AddJob(h) ==
  /\ rb[h].pc = "add"
  /\ rb[h].todo # {}
  /\ LET t == MinOf(rb[h].todo)
     IN /\ sched' = sched \cup {t}
        /\ rb' = [rb EXCEPT ![h].todo = @ \ {t}]
  /\ UNCHANGED <<now, tasks, jobs, runs, nextId, engineVars, triggers, fired, edits, logs, faulted, stopping, catVars, next_run, probe>>

\* the loop is over and the handler returns its redirect
RebuildReturn(h) ==
  /\ rb[h].pc = "add"
  /\ rb[h].todo = {}
  /\ rb' = [rb EXCEPT ![h] = IdleHandler]
  /\ UNCHANGED <<now, tasks, jobs, runs, nextId, engineVars, fireVars, edits, logs, faulted, stopping, catVars, next_run, probe>>

\* --------------------------------------------- the OUT line of a result
\* _execute_single from the return of the supervisor to the metric pairs,
\* over captured outputs made of a few lines.
MaxLines == 3

OutNine == OutPrefix \o <<"9">>
OutPair == OutPrefix \o <<"c", "=", "2", TAB, "7">>
\* lines a command may print: OUT= lines, one with an empty payload, near
\* misses of the prefix, other text and an empty line
LineTexts ==
  {<<"h", "i">>, <<>>, OutNine, OutPair, OutPrefix,
   <<SP>> \o OutNine, <<"x">> \o OutNine, <<"o", "u", "t", "=", "1">>}

LineSeqs == UNION {[1..n -> LineTexts] : n \in 0..MaxLines}

RECURSIVE JoinOn(_, _)
\* sep.join(pieces)
JoinOn(pieces, sep) ==
  IF pieces = <<>> THEN <<>>
  ELSE IF Len(pieces) = 1 THEN pieces[1]
  ELSE pieces[1] \o <<sep>> \o JoinOn(Tail(pieces), sep)

\* the text a command writes by printing the lines, the last one with or
\* without its line end
Printed(ls, final) ==
  JoinOn(ls, NL) \o (IF final /\ ls # <<>> THEN <<NL>> ELSE <<>>)

\* res = run_command_killpg(...) / run_argv_killpg(...): the supervisor returns
CaptureStdout ==
  /\ probe.pc = "idle"
  /\ \E ls \in LineSeqs, final \in BOOLEAN, rc \in ExitStatuses, timed_out \in BOOLEAN :
       probe' = [pc |-> "captured", lines |-> ls,
                 res |-> [exit_code |-> IF timed_out /\ rc = 0 THEN 124 ELSE rc,
                          timed_out |-> timed_out,
                          stdout |-> Printed(ls, final)]]
  /\ ProbeFrame

\* the status is set from the result, then tokens = parse_out_line(res.stdout)
\* and the pairs handed to write_metrics_csv
ClassifyAndParse ==
  /\ probe.pc = "captured"
  /\ probe' = [pc |-> "parsed", lines |-> probe.lines, res |-> probe.res,
               status |-> Classify(probe.res),
               tokens |-> parse_out_line(probe.res.stdout),
               pairs |-> MetricPairs(1, probe.res)]
  /\ ProbeFrame

NextParse == CaptureStdout \/ ClassifyAndParse

\* ------------------------------------------- rebuild, trigger by trigger
\* One request at a time changes the triggers table and rebuilds the jobs;
\* the rows carry the configuration the job builder looks at.
MaxCronTriggers == 3
MaxCronEdits == 3

CronEvery == <<"*", SP, "*", SP, "*", SP, "*", SP, "*">>
CronPadded == <<SP, "5", SP, SP, "*", SP, "*", SP, "*", SP, "*", SP>>
CronFour == <<"*", SP, "*", SP, "*", SP, "*">>
CronSix == <<"*", SP, "*", SP, "*", SP, "*", SP, "*", SP, "*">>
CronBadMinute == <<"6", "1", SP, "*", SP, "*", SP, "*", SP, "*">>
\* the texts posted to /tasks/{id}/trigger/cron
CronExprs == {CronEvery, CronPadded, CronFour, CronSix, CronBadMinute, <<SP>>}
\* the numbers posted to /tasks/{id}/trigger/interval
IntervalSecs == {0, IntervalSec}

\* str.split() without a separator: the pieces between runs of whitespace
SplitWs(s) == SelectSeq(SplitOn(s, SP), LAMBDA p : p # <<>>)

\* the values CronTrigger accepts for its fields minute, hour, day, month
\* and day_of_week
CronRange(i) ==
  CASE i = 1 -> 0..59 [] i = 2 -> 0..23 [] i = 3 -> 1..31 [] i = 4 -> 1..12
    [] OTHER -> 0..6

\* CronTrigger compiles the field: "*" or a number of the field's range;
\* anything else raises ValueError
FieldOk(f, i) == f = <<"*">> \/ (IsFloat(f) /\ FloatVal(f) \in CronRange(i))

\* one turn of the loop of _reload_jobs for a row: a job is added, the row
\* is passed over, or the construction of its trigger raises
BuildJob(row) ==
  IF row.trigger_type = "cron" /\ row.cron_expr # <<>>
  THEN LET parts == SplitWs(Strip(row.cron_expr))
       IN IF Len(parts) # 5 THEN "skip"
          ELSE IF \A i \in 1..5 : FieldOk(parts[i], i) THEN "job"
          ELSE "raise"
  ELSE IF row.trigger_type \in {"interval", "monitor"} /\ row.interval_sec # 0
  THEN "job"
  ELSE IF row.trigger_type = "deadline" /\ row.deadline_config # NoCfg
  THEN "job"
  ELSE "skip"

MaxOf(S) == CHOOSE x \in S : \A y \in S : y <= x

\* db.add(tr); db.commit(): the row gets the next rowid of the table
InsertTrigger(row) ==
  /\ edits < MaxCronEdits
  /\ Cardinality(DOMAIN triggers) < MaxCronTriggers
  /\ edits' = edits + 1
  /\ LET id == MaxOf(DOMAIN triggers \cup {0}) + 1
     IN triggers' = [t \in DOMAIN triggers \cup {id} |->
                       IF t = id THEN row ELSE triggers[t]]
  /\ rb' = [rb EXCEPT ![1] = [pc |-> "remove", todo |-> {}]]
  /\ UNCHANGED <<now, tasks, jobs, runs, nextId, engineVars, sched, fired, logs, faulted, stopping, catVars, next_run, probe>>

\* POST /tasks/{id}/trigger/cron up to its commit
add_cron_trigger ==
  /\ rb[1].pc \in {"idle", "raised"}
  /\ \E cron_expr \in CronExprs :
       InsertTrigger([task_id |-> 1, trigger_type |-> "cron",
                      holiday_policy |-> "NONE", enabled |-> 1,
                      deadline_config |-> NoCfg,
                      cron_expr |-> Strip(cron_expr), interval_sec |-> 0])

\* POST /tasks/{id}/trigger/interval up to its commit
add_interval_trigger ==
  /\ rb[1].pc \in {"idle", "raised"}
  /\ \E interval_sec \in IntervalSecs :
       InsertTrigger([task_id |-> 1, trigger_type |-> "interval",
                      holiday_policy |-> "NONE", enabled |-> 1,
                      deadline_config |-> NoCfg, cron_expr |-> <<>>,
                      interval_sec |-> interval_sec])

\* POST /triggers/{id}/delete up to its commit
trigger_delete ==
  /\ rb[1].pc \in {"idle", "raised"}
  /\ edits < MaxCronEdits
  /\ edits' = edits + 1
  /\ \E id \in DOMAIN triggers :
       triggers' = [t \in DOMAIN triggers \ {id} |-> triggers[t]]
  /\ rb' = [rb EXCEPT ![1] = [pc |-> "remove", todo |-> {}]]
  /\ UNCHANGED <<now, tasks, jobs, runs, nextId, engineVars, sched, fired, logs, faulted, stopping, catVars, next_run, probe>>

\* POST /triggers/{id}/edit up to its commit, with the enabled box switched
trigger_edit_enabled ==
  /\ rb[1].pc \in {"idle", "raised"}
  /\ edits < MaxCronEdits
  /\ edits' = edits + 1
  /\ \E id \in DOMAIN triggers :
       triggers' = [triggers EXCEPT ![id].enabled = 1 - @]
  /\ rb' = [rb EXCEPT ![1] = [pc |-> "remove", todo |-> {}]]
  /\ UNCHANGED <<now, tasks, jobs, runs, nextId, engineVars, sched, fired, logs, faulted, stopping, catVars, next_run, probe>>

\* one turn of the loop over the rows read, in rowid order
ReloadTurn ==
  /\ rb[1].pc = "add"
  /\ rb[1].todo # {}
  /\ LET t == MinOf(rb[1].todo)
         outcome == BuildJob(triggers[t])
     IN /\ sched' = IF outcome = "job" THEN sched \cup {t} ELSE sched
        /\ rb' = IF outcome = "raise"
                 THEN [rb EXCEPT ![1].pc = "raised"]
                 ELSE [rb EXCEPT ![1].todo = @ \ {t}]
  /\ UNCHANGED <<now, tasks, jobs, runs, nextId, engineVars, triggers, fired, edits, logs, faulted, stopping, catVars, next_run, probe>>

NextCron ==
  \/ add_cron_trigger
  \/ add_interval_trigger
  \/ trigger_delete
  \/ trigger_edit_enabled
  \/ RemoveAllJobs(1)
  \/ ReadEnabled(1)
  \/ ReloadTurn
  \/ RebuildReturn(1)

\* ------------------------------------------------------------------ specs
InitTriggers == <<>>
InitFired == NoFire

\* the state after the lifespan start-up: the catalogue is loaded and
\* AppScheduler.start() has built one job per enabled trigger of the table
InitWith(trs) ==
  /\ now = 0
  /\ \E ty \in TaskTypes : tasks = [t \in Tasks |-> [enabled |-> 1, type |-> ty]]
  /\ jobs = {"j1"}
  /\ runs = <<>>
  /\ nextId = 1
  /\ queue = <<>>
  /\ wk = [w \in Workers |-> IdleWorker]
  /\ alerts = <<>>
  /\ alert_state = <<>>
  /\ pushes = <<>>
  /\ csv = [t \in Tasks |-> <<>>]
  /\ logs = {}
  /\ triggers = trs
  /\ sched = ReloadedJobs(trs)
  /\ next_run = [t \in ReloadedJobs(trs) |-> FirstRun(0)]
  /\ probe = IdleProbe
  /\ fired = InitFired
  /\ claimed = [r \in 1..(MaxRuns + 1) |-> 0]
  /\ launches = [r \in 1..(MaxRuns + 1) |-> 0]
  /\ concurrent = {}
  /\ edits = 0
  /\ rb = [h \in Handlers |-> IdleHandler]
  /\ faulted = {}
  /\ stopping = FALSE
  /\ jobs_list = <<"j1">>
  /\ jobs_error = "none"
  /\ rd = [h \in Handlers |-> IdleReader]

Init == InitWith(InitTriggers)

Step(w) ==
  \/ Claim(w) \/ Abandon(w) \/ Sweep(w) \/ TaskGate(w) \/ Reject(w)
  \/ Supervise(w) \/ Persist(w)
  \/ Metrics(w) \/ Cleanup(w) \/ Catch(w) \/ Alert(w)

Next ==
  \/ Tick
  \/ run_now
  \/ task_edit
  \/ reload_jobs
  \/ Dispatch
  \/ \E w \in Workers : Step(w)

Spec == Init /\ [][Next]_vars

\* the trigger evaluator with its operator: triggers are added and edited,
\* tasks are switched, scheduled jobs fire
NextFire ==
  \/ FireTick
  \/ add_trigger
  \/ trigger_edit
  \/ task_edit
  \/ \E t \in 1..MaxTriggers : Fire(t)

SpecFire == Init /\ [][NextFire]_vars

\* days pass while the pool runs
LogTick ==
  /\ now < MaxLogTime
  /\ now' = now + 1
  /\ UNCHANGED <<tasks, jobs, runs, nextId, engineVars, fireVars, edits, logs, ctlVars>>

\* a run of the task is enqueued, claimed by a free worker thread and its
\* command launched: enqueue_run and execute_one_run up to Popen
StartRun(w) ==
  /\ wk[w].pc = "idle"
  /\ \E t \in Tasks :
       /\ tasks[t].enabled = 1
       /\ acquire_task_mutex(t, nextId)
       /\ get_job(TaskJob(t))
       /\ nextId <= MaxRuns
       /\ runs' = [r \in DOMAIN runs \cup {nextId} |->
                     IF r = nextId
                     THEN [NewRun(t, 0, now) EXCEPT !.status = "RUNNING",
                                                    !.started_at = now]
                     ELSE runs[r]]
       /\ wk' = [wk EXCEPT ![w].pc = "wait", ![w].rid = nextId, ![w].task = t]
  /\ claimed' = [claimed EXCEPT ![nextId] = @ + 1]
  /\ launches' = [launches EXCEPT ![nextId] = @ + 1]
  /\ nextId' = nextId + 1
  /\ UNCHANGED <<now, tasks, jobs, queue, alerts, alert_state, pushes, csv,
                 concurrent, fireVars, edits, logs, ctlVars>>

\* the engine from the launch of a command to the return of its worker,
\* over several days
NextLogs ==
  \/ LogTick
  \/ \E w \in Workers :
        \/ StartRun(w) \/ Supervise(w) \/ Persist(w) \/ Metrics(w) \/ Cleanup(w)
        \/ Catch(w) \/ Alert(w)

SpecLogs == Init /\ [][NextLogs]_vars

\* the alert engine under two worker threads that raise alerts
NextAlert ==
  \/ Tick
  \/ \E w \in Workers : AlertCall(w) \/ AlertRead(w) \/ AlertCommit(w)

SpecAlert == Init /\ [][NextAlert]_vars

\* the scheduler with one interval trigger from its start, under rebuilds
InitInterval == InitWith(<<IntervalTrigger>>)

NextInterval ==
  \/ IntervalTick
  \/ scheduler_reload_jobs
  \/ \E t \in 1..MaxTriggers : IntervalFire(t)

SpecInterval == InitInterval /\ [][NextInterval]_vars

\* POST /tasks/{id}/run, with more runs than the pool has threads
pool_run_now ==
  \E t \in Tasks :
    /\ nextId <= MaxPoolRuns
    /\ InsertRun(t, 0)
    /\ UNCHANGED <<now, tasks, jobs, engineVars, fireVars, edits, logs, ctlVars>>

\* the pool with more work than threads
NextPool ==
  \/ pool_run_now
  \/ Dispatch
  \/ \E w \in Workers : Step(w)

\* the pool serves a task of type schedule
InitPool == Init /\ \A t \in Tasks : tasks[t].type = "schedule"

SpecPool == InitPool /\ [][NextPool]_vars

\* the dispatcher and the threads' claims over time; what a thread does with
\* a run it has claimed is left to the other specifications
NextDispatch ==
  \/ FireTick
  \/ pool_run_now
  \/ Dispatch
  \/ \E w \in Workers : Claim(w) \/ Abandon(w)

SpecDispatch == InitPool /\ [][NextDispatch]_vars

\* the supervisor of one child, over all children
NextSupervisor ==
  \/ Popen
  \/ CommunicateTimeout
  \/ KillpgTerm
  \/ CommunicateGrace
  \/ KillpgKill
  \/ CommunicateRest

SpecSupervisor == Init /\ [][NextSupervisor]_vars

\* the engine with maybe_send_alert statement by statement
StepAlerting(w) ==
  \/ Claim(w) \/ Abandon(w) \/ Sweep(w) \/ TaskGate(w) \/ Reject(w)
  \/ Supervise(w) \/ Persist(w)
  \/ Metrics(w) \/ Cleanup(w) \/ Catch(w) \/ AlertRead(w) \/ AlertCommit(w)

NextAlerting ==
  \/ run_now
  \/ reload_jobs
  \/ Dispatch
  \/ \E w \in Workers : StepAlerting(w)

SpecAlerting == Init /\ [][NextAlerting]_vars

\* the engine when database operations can fail
NextFaults ==
  \/ run_now
  \/ Dispatch
  \/ \E w \in Workers : Step(w) \/ Fault(w)

SpecFaults == Init /\ [][NextFaults]_vars

\* the engine over time when a worker can die in the task gate
NextZombie ==
  \/ Tick
  \/ run_now
  \/ Dispatch
  \/ \E w \in Workers : Step(w) \/ GateFails(w)

SpecZombie == Init /\ [][NextZombie]_vars

\* the engine up to and after the shutdown of the pool
NextStop ==
  \/ run_now
  \/ Dispatch
  \/ stop
  \/ \E w \in Workers : Step(w)

SpecStop == Init /\ [][NextStop]_vars

\* the job catalogue under reloads and page requests
NextCatalogue ==
  \/ jobs_reload
  \/ \E h \in Handlers : DetailGetJob(h) \/ DetailListJobs(h) \/ DetailReturn(h)

SpecCatalogue == Init /\ [][NextCatalogue]_vars

\* the mutation handlers of two concurrent requests and their rebuilds
NextRebuild ==
  \E h \in Handlers :
    \/ TriggerCommit(h) \/ RemoveAllJobs(h) \/ ReadEnabled(h) \/ AddJob(h)
    \/ RebuildReturn(h)

SpecRebuild == Init /\ [][NextRebuild]_vars

\* one request at a time edits the triggers and rebuilds the jobs
SpecCron == Init /\ [][NextCron]_vars

\* results of the supervisor and what _execute_single reads from them
SpecParse == Init /\ [][NextParse]_vars

\* the engine over time when the statement of the zombie sweep can fail
NextSweep ==
  \/ Tick
  \/ run_now
  \/ Dispatch
  \/ \E w \in Workers : Step(w) \/ SweepFails(w)

SpecSweep == Init /\ [][NextSweep]_vars

\* ----------------------------------------------------------------- claims
\* a worker thread is inside execute_one_run for run r, past a won claim
Holds(w, r) == wk[w].rid = r /\ wk[w].pc \notin {"idle", "abandon"}
Held(r) == \E w \in Workers : Holds(w, r)

\* the step is worker w's claim attempt that changed no row, and its return
FailedClaimStep(w) == wk[w].pc = "idle" /\ wk'[w].pc = "abandon"
AbandonStep(w) == wk[w].pc = "abandon" /\ wk'[w].pc = "idle"

\* C1: of the workers that attempt the claim of one run exactly one observes
\* success; a worker whose claim fails abandons and changes no row of any
\* table.
C1_ClaimAtomicity ==
  /\ [](\A r \in RunIds :
          /\ claimed[r] <= 1
          /\ (r \in DOMAIN runs /\ runs[r].status # "PENDING") => claimed[r] = 1
          /\ (r < nextId /\ r \notin DOMAIN runs) => claimed[r] = 1)
  /\ [][\A w \in Workers : (FailedClaimStep(w) \/ AbandonStep(w))
             => UNCHANGED <<runs, tasks, alerts, alert_state, pushes, csv, logs, triggers>>]_vars

\* C1 witness: a worker lost the claim of a run that another worker holds
C1_Witness ==
  \E w, v \in Workers :
    /\ wk[w].pc = "abandon"
    /\ wk[w].rid \in DOMAIN runs
    /\ Holds(v, wk[w].rid)
    /\ claimed[wk[w].rid] = 1

\* C2 (as stated): every task has at most one run row with status RUNNING,
\* in every reachable state.
C2_OneRunningPerTask ==
  \A t \in Tasks :
    Cardinality({r \in DOMAIN runs : runs[r].task_id = t /\ runs[r].status = "RUNNING"}) <= 1

\* how a finished run ended: its command was launched, or it was rejected
\* by the reentrancy check
Executed(r) == launches[r] > 0
Rejected(r) == r \in DOMAIN runs /\ runs[r].exit_code = 99
Finished(r) == ~ Held(r) /\ (r \in DOMAIN runs => runs[r].status \in Terminal)

\* C3 (as stated): of two runs of one task claimed concurrently, once both
\* have ended by execution or by rejection, exactly one was executed and the
\* other was rejected with exit_code 99.
C3_Reentrancy ==
  \A a, b \in RunIds :
    ({a, b} \in concurrent /\ a # b /\ Finished(a) /\ Finished(b)
       /\ (Executed(a) \/ Rejected(a)) /\ (Executed(b) \/ Rejected(b)))
    => /\ ~ (Rejected(a) /\ Rejected(b))
       /\ ~ (Executed(a) /\ Executed(b))

\* C4: a run's status never moves backwards: a terminal status is never
\* followed by PENDING or RUNNING, RUNNING is never followed by PENDING, and
\* PENDING is followed only by PENDING or RUNNING.
C4_StatusForward ==
  [][\A r \in DOMAIN runs : r \in DOMAIN runs' =>
        /\ runs[r].status \in Terminal => runs'[r].status \in Terminal
        /\ runs[r].status = "RUNNING" => runs'[r].status # "PENDING"
        /\ runs[r].status = "PENDING" => runs'[r].status \in {"PENDING", "RUNNING"}]_vars

\* C4 witness: a run failed by the zombie sweep was later given its result
\* by its own worker (terminal, and with an exit code)
C4_Witness ==
  \E r \in DOMAIN runs :
    /\ runs[r].status \in Terminal
    /\ runs[r].error_message = "zombie"
    /\ runs[r].exit_code # None

\* C5 (as stated): while a run is RUNNING only the worker that claimed it
\* writes its row.
C5_ClaimerOwns ==
  [][\A r \in DOMAIN runs :
        (runs[r].status = "RUNNING" /\ (r \notin DOMAIN runs' \/ runs'[r] # runs[r]))
        => \E w \in Workers : Holds(w, r) /\ wk'[w] # wk[w]]_vars

\* C6: on every run row, started_at >= scheduled_at when started_at is set,
\* and finished_at is set only with started_at and is >= started_at.
C6_TimestampOrder ==
  \A r \in DOMAIN runs :
    /\ runs[r].started_at # None => runs[r].started_at >= runs[r].scheduled_at
    /\ runs[r].finished_at # None =>
         runs[r].started_at # None /\ runs[r].finished_at >= runs[r].started_at

\* C6 witness: a row enqueued, claimed at a later time and finished
C6_Witness ==
  \E r \in DOMAIN runs :
    /\ runs[r].finished_at # None
    /\ runs[r].started_at > runs[r].scheduled_at

\* the parsed pairs all have a row in the csv
PairsIn(pairs, rows) ==
  \A i \in 1..Len(pairs) :
    \E j \in 1..Len(rows) : rows[j].key = pairs[i].key /\ rows[j].value = pairs[i].value

\* the step is worker w's metrics step for a successful monitor run
MetricsStep(w) ==
  /\ wk[w].pc = "metrics" /\ wk'[w].pc = "cleanup"
  /\ tasks[wk[w].task].type = "monitor"
  /\ Classify(wk[w].res) = "SUCCESS"

\* the step removes the row of run r
Deleted(r) == r \in DOMAIN runs /\ r \notin DOMAIN runs'

\* no successful monitor run keeps its row once its worker has returned
NoSuccessfulMonitorRow ==
  \A r \in DOMAIN runs :
    (tasks[runs[r].task_id].type = "monitor" /\ runs[r].status = "SUCCESS") => Held(r)

SettledMonitorRuns ==
  {r \in DOMAIN runs :
     /\ tasks[runs[r].task_id].type = "monitor"
     /\ runs[r].status \in Terminal
     /\ ~ Held(r)}

TimedOutChild(w) == wk[w].pc = "persist" /\ wk[w].child \in {"term", "kill"}

\* the step commits worker w's supervisor result
PersistStep(w) == wk[w].pc = "persist" /\ wk'[w].pc = "metrics"

\* the result of a timed-out child is committed as TIMEOUT with its exit code
TimeoutRecorded ==
  [][\A w \in Workers :
        (PersistStep(w) /\ wk[w].res.timed_out) =>
           /\ runs'[wk[w].rid].status = "TIMEOUT"
           /\ runs'[wk[w].rid].exit_code = wk[w].res.exit_code]_vars

PolicyPredicate(policy, o) ==
  CASE policy = "NONE" -> TRUE
    [] policy = "CN_WORKDAY_ONLY" -> o.is_workday
    [] policy = "SKIP_CN_HOLIDAY" -> ~ o.is_holiday
    [] policy = "SKIP_CN_WORKDAY" -> ~ o.is_workday

\* C10: a firing of an enabled trigger of an enabled task passes the holiday
\* gate iff the policy's predicate holds today, and always when the oracle
\* is unavailable; a firing that does not pass enqueues nothing.
C10_HolidayGating ==
  (fired.trigger_id # 0 /\ fired.trig_enabled /\ fired.task_enabled
     /\ fired.policy \in Policies \ {"OTHER"})
  => /\ fired.gate \in {"pass", "block"}
     /\ fired.oracle.ok =>
          (fired.gate = "pass" <=> PolicyPredicate(fired.policy, fired.oracle))
     /\ ~ fired.oracle.ok => fired.gate = "pass"
     /\ fired.gate = "block" => ~ fired.enqueued

\* C10 witness: a firing passed the gate without an oracle and enqueued a
\* run under a policy other than NONE
C10_Witness ==
  /\ fired.trigger_id # 0
  /\ fired.policy = "CN_WORKDAY_ONLY"
  /\ ~ fired.oracle.ok
  /\ fired.gate = "pass"
  /\ fired.enqueued

\* trigger t is a deadline trigger
IsDeadline(t) == t \in DOMAIN triggers /\ triggers[t].trigger_type = "deadline"

\* the runs the step inserts for trigger t
EnqueuedBy(t) == {r \in DOMAIN runs' \ DOMAIN runs : runs'[r].trigger_id = t}

\* D - k days <= t <= D for a configuration with deadline_at = D
DeadlineWindow(cfg, t) ==
  /\ cfg.valid /\ cfg.deadline_at # None
  /\ cfg.deadline_at - cfg.start_before_days * DayTicks <= t
  /\ t <= cfg.deadline_at

\* C11: every run a deadline trigger enqueues is enqueued at a time inside
\* its window D - k days <= now <= D; no step outside the window inserts a
\* run for it.
C11_DeadlineWindow ==
  [][\A t \in 1..MaxTriggers :
        (IsDeadline(t) /\ EnqueuedBy(t) # {})
        => DeadlineWindow(triggers[t].deadline_config, now)]_vars

\* C11 witness: a run enqueued at the first instant of a one-day window
C11_Witness ==
  \E r \in DOMAIN runs :
    /\ runs[r].trigger_id # 0
    /\ IsDeadline(runs[r].trigger_id)
    /\ LET cfg == triggers[runs[r].trigger_id].deadline_config
       IN /\ cfg.start_before_days = 1
          /\ runs[r].scheduled_at = cfg.deadline_at - DayTicks

\* the deadline of trigger t has passed
Late(t) ==
  /\ IsDeadline(t)
  /\ triggers[t].deadline_config.valid
  /\ triggers[t].deadline_config.deadline_at # None
  /\ now > triggers[t].deadline_config.deadline_at

\* the step is a call of _fire for trigger t
FireStep(t) == fired' # fired /\ fired'.trigger_id = t

\* once the deadline has passed it stays passed and nothing is enqueued
NoEnqueueAfterDeadline ==
  [][\A t \in 1..MaxTriggers :
        Late(t) => (Late(t)' /\ EnqueuedBy(t) = {})]_vars

AlertCommitStep(w) == wk[w].pc = "alert_commit" /\ wk'[w].pc = "idle"

\* an attempt for the same (task, kind) was delivered at a time t with
\* 0 <= at - t < ALERT_SUPPRESS_SEC
DeliveredWithin(task_id, alert_type, at) ==
  \E i \in 1..Len(pushes) :
    /\ pushes[i].task_id = task_id /\ pushes[i].alert_type = alert_type
    /\ pushes[i].at <= at
    /\ at - pushes[i].at < ALERT_SUPPRESS_SEC

\* C13 (as stated): an attempt made less than ALERT_SUPPRESS_SEC after a
\* delivered attempt for the same (task, kind) does not call the notifier
\* and records no Alert row other than a suppressed one.
C13_AlertSuppression ==
  [][\A w \in Workers :
        (AlertCommitStep(w) /\ DeliveredWithin(wk[w].task, wk[w].kind, wk[w].at))
        => /\ pushes' = pushes
           /\ \A i \in (Len(alerts) + 1)..Len(alerts') : alerts'[i].suppressed = 1]_vars

\* no run_<d>.*.log file is more than max(LOG_BACKUP_COUNT, 1) days old
NoOldLogs == \A d \in logs : d >= LogDay(now) - KeepDays

\* the step completes worker w's run: it writes the run's terminal status
RunCompletes(w) ==
  /\ wk'[w] # wk[w]
  /\ HasRow(w)
  /\ runs[wk[w].rid].status = "RUNNING"
  /\ runs'[wk[w].rid].status \in Terminal

RebuildsFinished == \A h \in Handlers : rb[h].pc = "idle"

\* C15: once every rebuild has finished, the scheduled job set is exactly
\* the set of enabled triggers of the committed state: no job built from a
\* stale read survives.
C15_RebuildsSerialised ==
  RebuildsFinished => sched = ReloadedJobs(triggers)

\* ---------------------------------------------------------------- C16
\* the worker leaves execute_one_run
Returns(w) == wk[w].pc # "idle" /\ wk'[w].pc = "idle"

\* an unexpected failure was raised while the worker executed its run: a
\* database operation raised, or the outer handler was entered
Raised(w) == wk[w].rid \in faulted' \/ wk[w].kind = "internal_error"

InternalErrorRecorded(r, task_id) ==
  /\ r \in DOMAIN runs
  /\ runs[r].status = "FAILED"
  /\ runs[r].exit_code = 98
  /\ runs[r].error_message = "internal_error"
  /\ \E i \in 1..Len(alerts) :
       alerts[i].task_id = task_id /\ alerts[i].alert_type = "internal_error"

\* C16: when a step after the successful claim of a run has raised an
\* unexpected failure, the worker leaves the run FAILED with exit code 98
\* and the message "Internal error", and an internal_error alert of its
\* task has been raised.
C16_InternalErrorCatchAll ==
  [][\A w \in Workers :
       (Returns(w) /\ Raised(w) /\ HasRow(w))
         => InternalErrorRecorded(wk[w].rid, runs[wk[w].rid].task_id)']_vars

\* ---------------------------------------------------------------- C17
Running(r) == r \in DOMAIN runs /\ runs[r].status = "RUNNING"

\* the engine has nothing left to do: no worker executes a run, no id is
\* queued in the executor and the dispatcher finds no PENDING row.  Only a
\* new enqueue_run makes it move again.
AtRest ==
  /\ \A w \in Workers : wk[w].pc = "idle"
  /\ queue = <<>>
  /\ \A r \in DOMAIN runs : runs[r].status # "PENDING"

\* C17: every claimed run reaches a terminal status or is deleted while the
\* process keeps running, no path through the engine returns leaving it
\* RUNNING: once the engine has come to rest, no run is RUNNING.
C17_ClaimedRunsSettle ==
  AtRest => \A r \in RunIds : ~ Running(r)

\* ---------------------------------------------------------------- C18
\* a RUNNING row older than RUN_ZOMBIE_SEC
Zombie(r) == Running(r) /\ runs[r].started_at < now - RUN_ZOMBIE_SEC

\* C18: every RUNNING row left behind by a worker that died is moved to
\* FAILED once it is older than RUN_ZOMBIE_SEC, also when no further run is
\* enqueued or claimed: the engine does not come to rest, clock at its
\* bound included, while such a row exists.
C18_ZombieRecoveryEventual ==
  AtRest => \A r \in RunIds : ~ Zombie(r)

\* ---------------------------------------------------------------- C19
\* C19: after WorkerPool.stop() no run that is still PENDING is claimed any
\* more (moved to RUNNING).  No run enqueued after the stop is ever
\* submitted, so a PENDING run claimed after it was PENDING at that moment.
C19_NoClaimAfterStop ==
  [][stopping =>
       \A r \in DOMAIN runs :
         runs[r].status = "PENDING"
           => ~ (r \in DOMAIN runs' /\ runs'[r].status = "RUNNING")]_vars

\* ---------------------------------------------------------------- C20
\* a call of reload_jobs that fails: it returns False and a diagnostic
FailedReload == edits' = edits + 1 /\ jobs_error' # "none"

\* what a page request saw: the task's job is in the list it was shown
\* exactly if the lookup found it
ReaderConsistent(h) ==
  rd[h].pc = "render" => (rd[h].job <=> TaskJob(1) \in Range(rd[h].list))

\* C20: a failed reload (file missing, unreadable, not JSON, not a list)
\* leaves the id map and the list of the catalogue as they were and only
\* sets the diagnostic, and no reader sees a map and a list of two loads.
C20_ReloadSnapshotSwap ==
  /\ [][FailedReload => UNCHANGED <<jobs, jobs_list>>]_vars
  /\ [](\A h \in Handlers : ReaderConsistent(h))

\* ---------------------------------------------------------------- C21
\* another run of the task of run r is RUNNING
OtherRunning(r) ==
  \E a \in DOMAIN runs :
    a # r /\ runs[a].task_id = runs[r].task_id /\ runs[a].status = "RUNNING"

\* worker w performs the reentrancy check: its task gate has passed
MutexCheckStep(w) ==
  /\ wk[w].pc = "gate" /\ wk'[w].pc # "gate"
  /\ HasRow(w)
  /\ tasks[runs[wk[w].rid].task_id].enabled = 1

RejectStep(w) == wk[w].pc = "reject" /\ wk'[w].pc = "alert"

\* the maybe_send_alert call of the rejection ends and its worker returns
ReentryAlertStep(w) ==
  /\ wk[w].pc \in {"alert", "alert_commit"} /\ wk[w].kind = "reentry"
  /\ wk'[w].pc = "idle"

RejectedRow(row, t) ==
  [row EXCEPT !.status = "FAILED", !.finished_at = t, !.exit_code = 99,
              !.error_message = "reentry"]

\* C21: when the reentrancy check of claimed run B finds another run A of
\* the task RUNNING, B is rejected: its row becomes FAILED with exit code 99
\* and the reentry message, one reentry Alert row of the task is appended,
\* B's command is never launched, and no row but B's is changed.
C21_ReentryRejection ==
  [][\A w \in Workers :
       LET b == wk[w].rid
       IN /\ (MutexCheckStep(w) /\ OtherRunning(b))
               => /\ wk'[w].pc = "reject"
                  /\ UNCHANGED <<runs, launches, alerts>>
          /\ RejectStep(w)
               => /\ runs' = [runs EXCEPT ![b] = RejectedRow(runs[b], now)]
                  /\ launches'[b] = 0
                  /\ UNCHANGED alerts
          /\ ReentryAlertStep(w)
               => /\ Len(alerts') = Len(alerts) + 1
                  /\ alerts'[Len(alerts')].task_id = runs[b].task_id
                  /\ alerts'[Len(alerts')].alert_type = "reentry"
                  /\ runs[b].status = "FAILED" /\ runs[b].exit_code = 99
                  /\ launches'[b] = 0
                  /\ UNCHANGED runs]_vars

\* ---------------------------------------------------------------- C22
\* worker w resolves the command of its run and the catalogue has no such job
JobMissingStep(w) ==
  /\ wk[w].pc = "gate" /\ wk'[w].pc # "gate"
  /\ HasRow(w)
  /\ tasks[runs[wk[w].rid].task_id].enabled = 1
  /\ acquire_task_mutex(runs[wk[w].rid].task_id, wk[w].rid)
  /\ ~ get_job(TaskJob(runs[wk[w].rid].task_id))

\* the maybe_send_alert call of the missing job ends
JobMissingAlertStep(w) ==
  /\ wk[w].pc \in {"alert", "alert_commit"} /\ wk[w].kind = "job_missing"
  /\ wk'[w].pc \notin {"alert", "alert_commit"}

JobMissingRow(row, t) ==
  [row EXCEPT !.status = "FAILED", !.finished_at = t, !.exit_code = 97,
              !.error_message = "job_missing"]

\* C22: when the job of a claimed run's task is not in the catalogue, the run
\* ends FAILED with exit code 97 and the job-not-found message, one
\* job_missing Alert row (and no other) is appended, the worker returns and
\* no subprocess is launched.
C22_MissingJob ==
  [][\A w \in Workers :
       LET b == wk[w].rid
       IN /\ JobMissingStep(w)
               => /\ runs' = [runs EXCEPT ![b] = JobMissingRow(runs[b], now)]
                  /\ UNCHANGED <<launches, alerts>>
          /\ JobMissingAlertStep(w)
               => /\ wk'[w].pc = "idle"
                  /\ Len(alerts') = Len(alerts) + 1
                  /\ alerts'[Len(alerts')].task_id = runs[b].task_id
                  /\ alerts'[Len(alerts')].alert_type = "job_missing"
                  /\ runs[b].status = "FAILED" /\ runs[b].exit_code = 97
                  /\ launches'[b] = 0
                  /\ UNCHANGED runs]_vars

\* ---------------------------------------------------------------- C23
\* the enabled interval triggers of enabled tasks
LiveIntervalTriggers ==
  {t \in DOMAIN triggers :
     /\ triggers[t].trigger_type = "interval" /\ triggers[t].enabled = 1
     /\ tasks[triggers[t].task_id].enabled = 1}

\* the runs trigger t has enqueued
EnqueuedCount(t) == Cardinality({r \in DOMAIN runs : runs[r].trigger_id = t})

\* C23: an enabled interval trigger of an enabled task fires every
\* interval_sec seconds counted from the scheduler start, however often the
\* schedule is rebuilt: once the k-th multiple of interval_sec is past it
\* has enqueued at least k runs.
C23_IntervalFiring ==
  \A t \in LiveIntervalTriggers : EnqueuedCount(t) >= (now - 1) \div IntervalSec

\* ---------------------------------------------------------------- C24
\* what _fire reads of trigger t before the step lets a run through
FiringGatesPass(t) ==
  /\ t \in DOMAIN triggers
  /\ triggers[t].enabled = 1
  /\ tasks[triggers[t].task_id].enabled = 1
  /\ fired'.gate = "pass"
  /\ triggers[t].trigger_type = "deadline"
       => DeadlineWindow(triggers[t].deadline_config, now)

\* the step inserts exactly run r, as a fresh PENDING run of trigger t
InsertsFreshRun(t, r) ==
  /\ DOMAIN runs' = DOMAIN runs \cup {r}
  /\ \A q \in DOMAIN runs : runs'[q] = runs[q]
  /\ runs'[r].status = "PENDING"
  /\ runs'[r].task_id = triggers[t].task_id
  /\ runs'[r].trigger_id = t
  /\ runs'[r].scheduled_at = now
  /\ runs'[r].started_at = None
  /\ runs'[r].finished_at = None
  /\ runs'[r].exit_code = None

\* the step changes no row but the auto-disable of expired deadline trigger t
SkippedFiringFrame(t) ==
  /\ runs' = runs
  /\ tasks' = tasks
  /\ \/ triggers' = triggers
     \/ /\ Late(t)
        /\ triggers' = [triggers EXCEPT ![t].enabled = 0]

TaskGateStep(w) == wk[w].pc = "gate" /\ wk'[w].pc # "gate"

SweepStep(w) == wk[w].pc = "sweep" /\ wk'[w].pc = "gate"

\* row r goes from RUNNING to FAILED as a zombie
ZombieFailed(r) ==
  /\ runs'[r] = [runs[r] EXCEPT !.status = "FAILED", !.finished_at = now,
                                !.error_message = "zombie"]
  /\ runs'[r].finished_at # None

\* the sweep at time t fails exactly the RUNNING rows started before
\* t - RUN_ZOMBIE_SEC, leaves every other row as it is and records no alert;
\* a failed claim changes no row
C26_SweepEffect ==
  [][\A w \in Workers :
       /\ SweepStep(w)
          => /\ DOMAIN runs' = DOMAIN runs
             /\ \A r \in DOMAIN runs :
                  IF runs[r].status = "RUNNING" /\ runs[r].started_at < now - RUN_ZOMBIE_SEC
                  THEN ZombieFailed(r)
                  ELSE runs'[r] = runs[r]
             /\ alerts' = alerts /\ alert_state' = alert_state /\ pushes' = pushes
       /\ (FailedClaimStep(w) \/ AbandonStep(w)) => runs' = runs]_vars

\* C26: the sweep after a successful claim fails exactly the RUNNING rows
\* with started_at < t - RUN_ZOMBIE_SEC (FAILED, finished_at set, 'Zombie run
\* auto-failed'), records no Alert row and leaves every other row unchanged,
\* in particular the run just claimed; a failed claim performs no sweep.
C26_ZombieSweep ==
  /\ C26_SweepEffect
  /\ [][\A w \in Workers :
          SweepStep(w) => runs'[wk[w].rid] = runs[wk[w].rid]]_vars

\* ---------------------------------------------------------------- C27
\* a step of the dispatcher or of a worker thread that changes something
EngineStep == Dispatch \/ \E w \in Workers : Step(w)

\* all threads of the executor are occupied
AllSlotsBusy == \A w \in Workers : wk[w].pc # "idle"

\* an upper bound on the steps a worker thread at pc has before it is free
StepsLeft(pc) ==
  CASE pc = "idle" -> 0
    [] pc = "abandon" -> 1
    [] pc = "alert_commit" -> 3
    [] pc = "alert" -> 4
    [] pc = "catch" -> 5
    [] pc = "cleanup" -> 6
    [] pc = "metrics" -> 7
    [] pc = "persist" -> 8
    [] pc = "wait" -> 9
    [] pc = "reject" -> 9
    [] pc = "gate" -> 10
    [] pc = "sweep" -> 11

RECURSIVE SumStepsLeft(_)
SumStepsLeft(n) == IF n = 0 THEN 0 ELSE StepsLeft(wk[n].pc) + SumStepsLeft(n - 1)

\* the ids at the head of the executor's queue whose runs are PENDING no more
RECURSIVE StalePrefix(_)
StalePrefix(q) ==
  IF q = <<>> \/ Head(q) \in Pending THEN 0 ELSE 1 + StalePrefix(Tail(q))

\* what the engine has left to do, ordered by: runs PENDING, stale ids ahead
\* in the queue, room in the queue, steps of the busy threads
WorkLeft ==
  400 * Cardinality(Pending) + 100 * StalePrefix(queue)
    + 25 * (MaxQueue - Len(queue)) + SumStepsLeft(MAX_WORKERS)

DispatchStep == Len(queue') > Len(queue)

\* the ids the tick submits, in the order of submission
Submitted == SubSeq(queue', Len(queue) + 1, Len(queue'))

\* C28: on each dispatcher tick the submitted ids are at most MAX_WORKERS,
\* all of runs PENDING when selected, in ascending scheduled_at order, and
\* no PENDING run scheduled earlier than a submitted one is left out.
C28_DispatchOrder ==
  [][DispatchStep
       => /\ Len(Submitted) <= MAX_WORKERS
          /\ \A i \in DOMAIN Submitted : Submitted[i] \in Pending
          /\ \A i, j \in DOMAIN Submitted :
               i < j => runs[Submitted[i]].scheduled_at <= runs[Submitted[j]].scheduled_at
          /\ \A p \in Pending :
               (\A i \in DOMAIN Submitted : Submitted[i] # p)
               => \A i \in DOMAIN Submitted :
                    runs[Submitted[i]].scheduled_at <= runs[p].scheduled_at]_vars

\* C28 witness: of three PENDING runs scheduled at three different times a
\* tick has submitted the two earliest, in their order, and left the third
C28_Witness ==
  /\ Len(queue) = MAX_WORKERS
  /\ DOMAIN runs = 1..MaxPoolRuns
  /\ \A r \in DOMAIN runs : runs[r].status = "PENDING"
  /\ \E p \in Pending :
       /\ \A i \in DOMAIN queue : queue[i] # p
       /\ runs[queue[1]].scheduled_at < runs[queue[2]].scheduled_at
       /\ runs[queue[2]].scheduled_at < runs[p].scheduled_at

\* ---------------------------------------------------------------- C29
\* the step ends worker w's alert attempt (maybe_send_alert returns or raises)
AlertAttemptEnds(w) == wk[w].pc = "alert_commit" /\ wk'[w].pc # "alert_commit"

\* an attempt for the pair was made less than ALERT_SUPPRESS_SEC before t
AttemptedWithin(key, t) ==
  key \in DOMAIN alert_state /\ t - alert_state[key] < ALERT_SUPPRESS_SEC

\* C29: every alert attempt for (task, kind), suppressed or not, appends
\* exactly one Alert row carrying the suppressed flag and sets last_sent_at
\* of the pair to now; it is delivered iff no attempt of any outcome for the
\* pair was made in the preceding ALERT_SUPPRESS_SEC seconds; the rows of
\* other pairs are neither read nor changed.
C29_AlertBookkeeping ==
  [][\A w \in Workers :
       AlertAttemptEnds(w)
       => LET key == <<wk[w].task, wk[w].kind>>
              sup == IF AttemptedWithin(key, wk[w].at) THEN 1 ELSE 0
          IN /\ alerts' = Append(alerts, [task_id |-> wk[w].task,
                                          alert_type |-> wk[w].kind,
                                          suppressed |-> sup])
             /\ key \in DOMAIN alert_state'
             /\ alert_state'[key] = wk[w].at
             /\ \A k \in DOMAIN alert_state : k # key => alert_state'[k] = alert_state[k]
             /\ DOMAIN alert_state' = DOMAIN alert_state \cup {key}
             /\ (Len(pushes') = Len(pushes) + 1) <=> (sup = 0)
             /\ (Len(pushes') = Len(pushes)) <=> (sup = 1)]_vars

\* ---------------------------------------------------------------- C30
AlertTypes == {"reentry", "job_missing", "exec_failed", "internal_error"}

\* worker w has executed its run and committed FAILED or TIMEOUT for it, and
\* is on its way from the commit to the return of _execute_single
ClassifiedFailed(w) ==
  /\ wk[w].pc \in {"metrics", "cleanup", "alert", "alert_commit"}
  /\ wk[w].kind \in {"none", "exec_failed"}
  /\ HasRow(w)
  /\ launches[wk[w].rid] >= 1
  /\ runs[wk[w].rid].status \in {"FAILED", "TIMEOUT"}

ExecFailedRow(t) == [task_id |-> t, alert_type |-> "exec_failed"]

\* the rows the step appends to the Alert table, without the suppressed flag
NewAlerts ==
  [i \in 1..(Len(alerts') - Len(alerts)) |->
     [task_id |-> alerts'[Len(alerts) + i].task_id,
      alert_type |-> alerts'[Len(alerts) + i].alert_type]]

\* C30: an executed run classified FAILED or TIMEOUT produces exactly one
\* exec_failed Alert row; runs that end SUCCESS or SKIPPED and runs failed by
\* the zombie sweep produce none; every Alert row of kind reentry,
\* job_missing, exec_failed or internal_error is of a task one of whose runs
\* ended FAILED or TIMEOUT.
C30_AlertsFollowOutcomes ==
  /\ [][\A w \in Workers :
          (ClassifiedFailed(w) /\ wk'[w] # wk[w])
          => IF wk'[w].pc = "idle"
             THEN NewAlerts = <<ExecFailedRow(runs[wk[w].rid].task_id)>>
             ELSE /\ wk'[w].pc \in {"cleanup", "alert", "alert_commit"}
                  /\ alerts' = alerts]_vars
  /\ [][\A w \in Workers :
          (wk'[w] # wk[w] /\ HasRow(w) /\ wk[w].rid \in DOMAIN runs'
             /\ runs'[wk[w].rid].status \in {"SUCCESS", "SKIPPED"})
          => alerts' = alerts]_vars
  /\ [][\A w \in Workers : SweepStep(w) => alerts' = alerts]_vars
  /\ [](\A i \in DOMAIN alerts :
          /\ alerts[i].alert_type \in AlertTypes
          /\ \E r \in DOMAIN runs :
               /\ runs[r].task_id = alerts[i].task_id
               /\ runs[r].status \in {"FAILED", "TIMEOUT"})

\* ---------------------------------------------------------------- C31
\* the supervisor has returned
Supervised == probe.pc = "done"

\* C31: if the child exits before timeout_sec no signal is sent, timed_out
\* is false and exit_code is the child's status; otherwise SIGTERM is sent
\* to the group first and timed_out is true; SIGKILL is sent only if the
\* child is still alive after term_grace_sec, and never before SIGTERM.
C31_EscalationOrder ==
  /\ probe.signals \in {<<>>, <<"SIGTERM">>, <<"SIGTERM", "SIGKILL">>}
  /\ (Supervised /\ probe.c.exit = 1)
     => /\ probe.signals = <<>>
        /\ ~ probe.res.timed_out
        /\ probe.res.exit_code = probe.c.rc
  /\ (Supervised /\ probe.c.exit > 1)
     => /\ probe.signals # <<>>
        /\ probe.res.timed_out
  /\ (\E i \in DOMAIN probe.signals : probe.signals[i] = "SIGKILL")
     => probe.c.exit = 3

\* the claim for a child whose pipes close when it exits
C31_EscalationOrderOwnPipes ==
  (probe.c.eof = probe.c.exit) => C31_EscalationOrder

\* ---------------------------------------------------------------- C32
\* the step is the commit of the result of worker w's run
ResultCommitStep(w) == wk[w].pc = "persist" /\ wk'[w].pc = "metrics"

\* C32: the status recorded for a supervisor result is TIMEOUT if timed_out,
\* else SUCCESS if exit_code = 0, else FAILED, and the recorded exit_code is
\* the supervisor's; a run row with status SUCCESS always has exit_code 0.
C32_Classification ==
  /\ [][\A w \in Workers :
          ResultCommitStep(w)
          => LET r == wk[w].rid
                 res == wk[w].res
             IN /\ res.timed_out => runs'[r].status = "TIMEOUT"
                /\ (~ res.timed_out /\ res.exit_code = 0) => runs'[r].status = "SUCCESS"
                /\ (~ res.timed_out /\ res.exit_code # 0) => runs'[r].status = "FAILED"
                /\ runs'[r].exit_code = res.exit_code]_vars
  /\ [](\A r \in DOMAIN runs : runs[r].status = "SUCCESS" => runs[r].exit_code = 0)

\* C32 witness: a run recorded TIMEOUT with the 124 of a child that reported
\* 0 after SIGTERM, next to a run recorded SUCCESS with exit_code 0
C32_Witness ==
  \E r, q \in DOMAIN runs :
    /\ runs[r].status = "TIMEOUT" /\ runs[r].exit_code = 124
    /\ runs[q].status = "SUCCESS" /\ runs[q].exit_code = 0

\* ---------------------------------------------------------------- C33
\* the last rebuild has ended: its loop ran out, or the construction of a
\* trigger raised
RebuildEnded == edits > 0 /\ rb[1].pc \in {"idle", "raised"}

\* an enabled cron trigger whose expression has not exactly 5 fields
Malformed(t) ==
  /\ triggers[t].enabled = 1
  /\ triggers[t].trigger_type = "cron"
  /\ triggers[t].cron_expr # <<>>
  /\ Len(SplitWs(Strip(triggers[t].cron_expr))) # 5

\* C33: a rebuild over enabled triggers of which one is a cron trigger
\* without exactly 5 fields does not raise, schedules no job for that
\* trigger and schedules a job for every other enabled trigger.
C33_MalformedCronSkipped ==
  (RebuildEnded /\ \E t \in DOMAIN triggers : Malformed(t)) =>
    /\ rb[1].pc # "raised"
    /\ sched = {t \in ReloadedJobs(triggers) : ~ Malformed(t)}

\* the turn of the loop for such a trigger adds no job and does not raise
C33_MalformedTurn ==
  [][(ReloadTurn /\ Malformed(MinOf(rb[1].todo))) =>
       (sched' = sched /\ rb'[1].pc = "add")]_vars

\* a rebuild has passed over a cron trigger of 4 or 6 fields and returned
C33_SkipReached ==
  /\ RebuildEnded
  /\ rb[1].pc = "idle"
  /\ \E t \in DOMAIN triggers : Malformed(t) /\ t \notin sched
  /\ sched # {}

\* ---------------------------------------------------------------- C40
\* the trigger's configuration is one the job builder makes a job from
Usable(t) == BuildJob(triggers[t]) = "job"

\* C40: after a rebuild has returned or raised, the scheduled jobs are
\* exactly the enabled triggers with a usable configuration, one job each:
\* no disabled or deleted trigger has a job, and a trigger whose
\* configuration is rejected while its job is built does not keep the
\* triggers enumerated after it from being scheduled.
C40_RebuildComplete ==
  RebuildEnded => sched = {t \in ReloadedJobs(triggers) : Usable(t)}

\* after a rebuild that returned the jobs are exactly those triggers
C40_ReturnedComplete ==
  (RebuildEnded /\ rb[1].pc = "idle") =>
    sched = {t \in ReloadedJobs(triggers) : Usable(t)}

\* ---------------------------------------------------------------- C34
\* the printed lines that start with the literal OUT=
OutLines(ls) ==
  {i \in 1..Len(ls) : Len(ls[i]) >= 4 /\ ls[i][1] = "O" /\ ls[i][2] = "U"
                        /\ ls[i][3] = "T" /\ ls[i][4] = "="}

\* what follows OUT= on the last such line
LastPayload(ls) ==
  LET last == CHOOSE i \in OutLines(ls) : \A j \in OutLines(ls) : j <= i
  IN SubSeq(ls[last], 5, Len(ls[last]))

Supervising(w, t) == wk[w].pc = "wait" /\ wk[w].task = t

\* C35: at no time do two subprocesses of one task run, also when the row
\* of the earlier run has meanwhile been failed by the zombie sweep.
C35_OneSubprocessPerTask ==
  \A t \in Tasks : Cardinality({w \in Workers : Supervising(w, t)}) <= 1

\* while the rows of the runs being executed are all RUNNING there is at
\* most one subprocess per task
C35_OneSubprocessWhileRunning ==
  \A t \in Tasks :
    (\A w \in Workers : Supervising(w, t) => Running(wk[w].rid))
    => Cardinality({w \in Workers : Supervising(w, t)}) <= 1

\* ---------------------------------------------------------------- C36
\* the executor hands worker w a run id whose row is not PENDING any more,
\* or is gone: a duplicate submission
DuplicateClaim(w) ==
  /\ wk[w].pc = "idle" /\ wk'[w].pc # "idle"
  /\ queue # <<>>
  /\ claimed[Head(queue)] >= 1

\* C36: the command of a run is launched at most once, also when the
\* dispatcher has submitted its id on several ticks before a worker claimed
\* it; a duplicate submission ends at the failed claim: the worker abandons
\* and returns, and neither step changes a row, an alert, a push, a metric,
\* a log or a launch count.
C36_AtMostOnce ==
  /\ [](\A r \in 1..(MaxRuns + 1) : launches[r] <= 1)
  /\ [][\A w \in Workers :
          /\ DuplicateClaim(w) => wk'[w].pc = "abandon"
          /\ (DuplicateClaim(w) \/ AbandonStep(w)) =>
               UNCHANGED <<runs, tasks, alerts, alert_state, pushes, csv, logs,
                           launches, claimed>>
          /\ AbandonStep(w) => wk'[w].pc = "idle"]_vars

\* C36 witness: the id of a run was submitted twice before its claim; one
\* worker launched the command and another ended at the failed claim
C36_Witness ==
  \E w, v \in Workers :
    /\ wk[w].pc = "abandon"
    /\ wk[v].pc = "wait" /\ wk[v].rid = wk[w].rid
    /\ launches[wk[w].rid] = 1

\* ---------------------------------------------------------------- C37
\* the step leaves the recorded result of run r as it is
ResultKept(r) ==
  /\ runs'[r].status = runs[r].status
  /\ runs'[r].exit_code = runs[r].exit_code
  /\ runs'[r].error_message = runs[r].error_message

\* C37: once the row of a run has a terminal status, no later step changes
\* its status, exit_code or error_message: the row of a zombie-failed run
\* is not rewritten when its worker finishes, and a classified FAILED or
\* TIMEOUT row is not rewritten to exit_code 98 by the catch-all.
C37_TerminalFinal ==
  [][\A r \in DOMAIN runs \cap DOMAIN runs' :
        runs[r].status \in Terminal => ResultKept(r)]_vars

\* a terminal row is rewritten only by the worker that claimed its run
C37_RewrittenByClaimer ==
  [][\A r \in DOMAIN runs \cap DOMAIN runs' :
        (runs[r].status \in Terminal /\ ~ ResultKept(r))
        => \E w \in Workers : Holds(w, r) /\ wk'[w] # wk[w]]_vars

\* ---------------------------------------------------------------- C38
\* worker v ends a maybe_send_alert call during which another call for the
\* same (task, kind) was committed: the AlertState row is not the one v read
OverlappedCommit(v) ==
  /\ wk[v].pc = "alert_commit" /\ wk'[v].pc # "alert_commit"
  /\ wk[v].st # AlertStateRead(wk[v].task, wk[v].kind)

\* the call that overlapped v's, committed at last_sent_at, was delivered
OtherDelivered(v) ==
  \E i \in 1..Len(pushes) :
    /\ pushes[i].task_id = wk[v].task
    /\ pushes[i].alert_type = wk[v].kind
    /\ pushes[i].at = AlertStateRead(wk[v].task, wk[v].kind)

\* C38: of two maybe_send_alert calls for one (task, kind) made concurrently
\* by two workers at most one is delivered, both leave an Alert row, and
\* the pair has one AlertState row afterwards.
C38_ConcurrentSuppression ==
  [][\A v \in Workers :
       OverlappedCommit(v) =>
         /\ Len(alerts') = Len(alerts) + 1
         /\ alerts'[Len(alerts')].task_id = wk[v].task
         /\ alerts'[Len(alerts')].alert_type = wk[v].kind
         /\ ~ (OtherDelivered(v) /\ Len(pushes') > Len(pushes))
         /\ <<wk[v].task, wk[v].kind>> \in DOMAIN alert_state']_vars

\* of two overlapping calls the later one leaves the pair with its one
\* AlertState row and appends at most one Alert row
C38_OneStateRow ==
  [][\A v \in Workers :
       OverlappedCommit(v) =>
         /\ <<wk[v].task, wk[v].kind>> \in DOMAIN alert_state'
         /\ Len(alerts') \in {Len(alerts), Len(alerts) + 1}]_vars

\* ---------------------------------------------------------------- C39
\* the reentrancy check of worker w finds another RUNNING run of the task
RejectionDecided(w) == wk[w].pc = "gate" /\ wk'[w].pc = "reject"

\* the rows that make the reentrancy check of run r fail
RunningPeers(r) ==
  {a \in DOMAIN runs :
     a # r /\ runs[a].task_id = runs[r].task_id /\ runs[a].status = "RUNNING"}

====
